---- MODULE Spec2Model ----
(***************************************************************************)
(* Model of the SMB2 transport client (src/src/client/Client.ts), of the    *)
(* session layer that runs on top of it (src/src/client/Session.ts) and of *)
(* the trees of a session with their open handles (class Tree).            *)
(*                                                                         *)
(* The mutable program state is gathered in one record (State); every      *)
(* method of the source is an operator from a state record to a state      *)
(* record, so that a handler which calls other methods, or which resumes   *)
(* the code waiting on a promise, is the composition of their operators.   *)
(* An action of the model is one macrotask of the event loop: a call made  *)
(* by the application, a socket event or a timer, together with every      *)
(* promise continuation it makes runnable.                                 *)
(***************************************************************************)
EXTENDS Integers, Sequences, FiniteSets, TLC

(* ---------------------------- bounds ----------------------------------- *)

\* Number of requests that may be created on the client.
MaxMsgs == 2

\* Number of message ids under which the server may have an unmatched
\* response buffered at once.
MaxBuffered == 1

\* Number of requests that the session layer may create (an authentication
\* takes three, a logoff one).
MaxSessionMsgs == 4

\* Number of Session objects that Client.authenticate may create.
MaxSessions == 1

\* Number of close() calls that may be suspended at once.
MaxClose == 1

\* Number of Tree objects that may be created.
MaxTrees == 1

\* Number of File and Directory objects that may be created.
MaxHandles == 1

\* Number of NetBIOS frames in a byte stream, bytes in the payload of a
\* frame, and TCP segments a stream is cut into.
MaxFrames == 2
MaxPayload == 2
MaxSegments == 3

\* The longest message given to Client.encryptMessage.
MaxPlain == 258

\* The connect() calls made on one client.
MaxSockets == 3

(* --------------------------- constants --------------------------------- *)

\* StatusCode (src/unnamed/part_003), by name; AccessDenied is the literal
\* 0xc0000022 of Tree.connect and stands for the statuses outside the enum.
Success == "Success"
Pending == "Pending"
MoreProcessingRequired == "MoreProcessingRequired"
FileClosed == "FileClosed"
FileNameNotFound == "FileNameNotFound"
SharingViolation == "SharingViolation"
AccessDenied == "AccessDenied"

StatusCode ==
  {Success, Pending, MoreProcessingRequired, FileClosed,
   FileNameNotFound, SharingViolation, AccessDenied}

\* PacketType values that the client code distinguishes or issues.
Echo == "Echo"
ChangeNotify == "ChangeNotify"
Negotiate == "Negotiate"
SessionSetup == "SessionSetup"
LogOff == "LogOff"
TreeConnect == "TreeConnect"
TreeDisconnect == "TreeDisconnect"
Create == "Create"
CloseType == "Close"
SetInfo == "SetInfo"

\* Session ids a server may assign; Undefined is JavaScript's undefined.
Undefined == "undefined"
ServerSessionIds == {"sid1"}

Sessions == 1 .. MaxSessions
CloseCalls == 1 .. MaxClose
Trees == 1 .. MaxTrees
Handles == 1 .. MaxHandles

\* The security buffer of a SessionSetup response, as far as
\* decodeChallengeMessage (part_007 189-221) looks at it: wellFormed when it
\* starts with "NTLMSSP\0" and message type 2, and the ExtendedSessionSecurity
\* bit of its negotiate flags.
NoBuffer == [wellFormed |-> FALSE, extendedSessionSecurity |-> FALSE]

\* A well-formed Type 2 message of a server that negotiates extended
\* session security.
ChallengeBuffer == [wellFormed |-> TRUE, extendedSessionSecurity |-> TRUE]

\* The NTLM blob in the body of a request: message type 1 or 3 (0 when the
\* body holds none), the workstation name, and the NTLM version of its
\* flags (type 1) or of its responses (type 3).
NoBody == [ntlm |-> 0, workstation |-> "", version |-> ""]

\* No response (a promise that is not settled by a response).
NoResponse ==
  [messageId |-> -1, type |-> "", status |-> "", sessionId |-> "",
   shareFlags |-> 0, transform |-> FALSE, intact |-> TRUE,
   dialectRevision |-> 0, encryptionCapability |-> FALSE, buffer |-> NoBuffer]

\* Responses a server can put on the wire: header fields, and the
\* shareFlags of the body of a TreeConnect response. transform says that
\* the frame is a Transform envelope around the encrypted response, whose
\* sessionId is then also the envelope's; intact is FALSE for an envelope
\* whose tag does not verify.
Responses(ids, types, statuses) ==
  [messageId : ids, type : types, status : statuses,
   sessionId : ServerSessionIds, shareFlags : {0}, transform : {FALSE},
   intact : {TRUE}, dialectRevision : {0}, encryptionCapability : {FALSE},
   buffer : {ChallengeBuffer}]

\* The frames of a server that may encrypt: plain or in a Transform
\* envelope, the envelope intact or not. Share flags come with a successful
\* TreeConnect; what an envelope that does not verify held is never seen,
\* and what an intact one held is handled as if it had come in plain.
Frames(ids, statuses, flags) ==
  {f \in [messageId : ids, type : {Echo}, status : statuses,
          sessionId : ServerSessionIds, shareFlags : flags,
          transform : BOOLEAN, intact : BOOLEAN,
          dialectRevision : {0}, encryptionCapability : {FALSE},
          buffer : {ChallengeBuffer}] :
     /\ ~f.transform => f.intact
     /\ f.status # Success => f.shareFlags = 0
     /\ f.transform => (f.status = Success /\ f.shareFlags = 0)}

(* ----------------------------- state ----------------------------------- *)

VARIABLES
  connected,            \* Client.connected
  socket,               \* Client.socket: "undefined", "connecting", "open", "closed"
  nextMessageId,        \* Client.nextMessageId
  responseMap,          \* Client.responseMap: messageId -> response
  responseCallbackMap,  \* Client.responseCallbackMap: messageId -> request whose finishRequest is registered
  requestTimeoutIdMap,  \* Client.requestTimeoutIdMap: messageId -> request whose timer is stored
  timers,               \* requests whose setTimeout is armed (not fired, not cleared)
  requests,             \* every Request created, in creation order, with the state of its send() promise
  written,              \* the messages written to the socket
  sessions,             \* Client.sessions
  sess,                 \* the Session objects
  tree,                 \* the Tree objects
  handle,               \* the File and Directory objects
  closeCalls,           \* close() calls suspended on Promise.all
  setting,              \* Client.host, os.hostname() and process.env.NODE_SMB2_DEFAULT_NTLM
  framer,               \* Client.responseRestChunk, with the bytes the server sends
  wire,                 \* the bytes Client.encryptMessage was given and returned
  sockets,              \* the Socket objects that connect() calls have created, and which one is Client.socket
  lastOp                \* the last macrotask and what it did

vars ==
  <<connected, socket, nextMessageId, responseMap, responseCallbackMap,
    requestTimeoutIdMap, timers, requests, written, sessions, sess,
    tree, handle, closeCalls, setting, framer, wire, sockets, lastOp>>

State ==
  [connected |-> connected, socket |-> socket, nextMessageId |-> nextMessageId,
   responseMap |-> responseMap, responseCallbackMap |-> responseCallbackMap,
   requestTimeoutIdMap |-> requestTimeoutIdMap, timers |-> timers,
   requests |-> requests, written |-> written, sessions |-> sessions,
   sess |-> sess, tree |-> tree, handle |-> handle, closeCalls |-> closeCalls,
   setting |-> setting,
   emitted |-> FALSE, invoked |-> 0, buffered |-> FALSE, dropped |-> FALSE,
   done |-> {}, failed |-> {}, thrown |-> {}, authThrown |-> {},
   ops |-> {}, loggedOff |-> {}, disconnected |-> {}]

\* The next state is the record T. lastOp keeps what the macrotask did and
\* the state does not show: that it was a send or a "data" event, the
\* response the event carried and what onResponse did with it, and the
\* calls that returned or threw. ops holds the calls of Tree.request and of
\* the convenience operations of Tree that were made, have returned or have
\* thrown in the macrotask.
Becomes(T, op, arg, resp) ==
  /\ connected' = T.connected
  /\ socket' = T.socket
  /\ nextMessageId' = T.nextMessageId
  /\ responseMap' = T.responseMap
  /\ responseCallbackMap' = T.responseCallbackMap
  /\ requestTimeoutIdMap' = T.requestTimeoutIdMap
  /\ timers' = T.timers
  /\ requests' = T.requests
  /\ written' = T.written
  /\ sessions' = T.sessions
  /\ sess' = T.sess
  /\ tree' = T.tree
  /\ handle' = T.handle
  /\ closeCalls' = T.closeCalls
  /\ setting' = T.setting
  /\ framer' = framer
  /\ wire' = wire
  /\ sockets' = sockets
  /\ lastOp' = [op |-> IF op \in {"onData", "send"} THEN op ELSE "", resp |-> resp,
                emitted |-> T.emitted, invoked |-> T.invoked,
                buffered |-> T.buffered, dropped |-> T.dropped,
                done |-> T.done, failed |-> T.failed, thrown |-> T.thrown,
                authThrown |-> T.authThrown, ops |-> T.ops,
                loggedOff |-> T.loggedOff, disconnected |-> T.disconnected]

(* ------------------------- Map helpers --------------------------------- *)

\* JavaScript Map: has / set / delete, on functions with a finite domain.
EmptyMap == [k \in {} |-> 0]
Has(m, k) == k \in DOMAIN m
MapSet(m, k, v) == [x \in (DOMAIN m) \cup {k} |-> IF x = k THEN v ELSE m[x]]
MapDelete(m, k) == [x \in (DOMAIN m) \ {k} |-> m[x]]

(* ------------------------ Client (transport) --------------------------- *)

\* The body given with a request, kept for the NTLM blobs only.
BodyOf(header) == IF "body" \in DOMAIN header THEN header.body ELSE NoBody

\* Mutant of createRequest: the id is taken without incrementing the counter.
createRequest_reusesId(S, header, owner) ==
  [S EXCEPT
     !.requests = Append(S.requests,
        [messageId |-> S.nextMessageId, type |-> header.type,
         sessionId |-> header.sessionId, body |-> BodyOf(header), owner |-> owner,
         st |-> "created", resp |-> NoResponse, err |-> "", late |-> FALSE])]

\* Client.createRequest: the id is nextMessageId, which is then incremented;
\* the new Request is the last element of S.requests.
createRequest(S, header, owner) ==
  [S EXCEPT
     !.nextMessageId = S.nextMessageId + 1,
     !.requests = Append(S.requests,
        [messageId |-> S.nextMessageId, type |-> header.type,
         sessionId |-> header.sessionId, body |-> BodyOf(header), owner |-> owner,
         st |-> "created", resp |-> NoResponse, err |-> "", late |-> FALSE])]

\* Mutant of StatusResolves: FileClosed is not tolerated.
StatusResolves_noFileClosed(status) ==
  status \in {Success, Pending, MoreProcessingRequired}

\* The status test of finishRequest (Client.ts 241-246): TRUE when the
\* promise is resolved, FALSE when it is rejected with the response.
StatusResolves(status) ==
  status \in {Success, Pending, MoreProcessingRequired, FileClosed}

\* finishRequest, the waiter of request r, called with a response. Settling
\* a promise that is already settled has no effect (late records the call).
finishRequest(S, r, response) ==
  LET T == [S EXCEPT !.invoked = r] IN
  IF S.requests[r].st # "pending" THEN [T EXCEPT !.requests[r].late = TRUE]
  ELSE IF StatusResolves(response.status)
       THEN [T EXCEPT !.requests[r].st = "resolved",
                      !.requests[r].resp = response]
       ELSE [T EXCEPT !.requests[r].st = "rejected",
                      !.requests[r].resp = response,
                      !.requests[r].err = "response"]

\* Client.send after `await sendPromise` (Client.ts 261-268): runs only when
\* the promise was resolved; clears the timer stored under the message id.
clearRequestTimeout(S, r) ==
  LET messageId == S.requests[r].messageId IN
  IF S.requests[r].st = "resolved" /\ Has(S.requestTimeoutIdMap, messageId)
  THEN [S EXCEPT
          !.timers = S.timers \ {S.requestTimeoutIdMap[messageId]},
          !.requestTimeoutIdMap = MapDelete(S.requestTimeoutIdMap, messageId)]
  ELSE S

\* Mutant of Encrypts: encryptionEnabled is not looked at.
Encrypts_whenKey(S, sessionId) ==
  \E i \in 1 .. Len(S.sessions) :
     /\ S.sess[S.sessions[i]]._id = sessionId
     /\ \A j \in 1 .. (i - 1) : S.sess[S.sessions[j]]._id # sessionId
     /\ S.sess[S.sessions[i]].encryptionKey

\* Does the owning session of a request encrypt (Client.ts 211-212)?
Encrypts(S, sessionId) ==
  \E i \in 1 .. Len(S.sessions) :
     /\ S.sess[S.sessions[i]]._id = sessionId
     /\ \A j \in 1 .. (i - 1) : S.sess[S.sessions[j]]._id # sessionId
     /\ S.sess[S.sessions[i]].encryptionEnabled
     /\ S.sess[S.sessions[i]].encryptionKey

\* Client.sessions.find(s => s._id === sessionId): the first session of the
\* list with that id, 0 for undefined (Client.ts 211, 290).
find(S, sessionId) ==
  LET hits == {i \in 1 .. Len(S.sessions) : S.sess[S.sessions[i]]._id = sessionId} IN
  IF hits = {} THEN 0
  ELSE S.sessions[CHOOSE i \in hits : \A j \in hits : i <= j]

\* Client.encryptMessage throws when a key is missing (Client.ts 172-174)
\* and send rethrows (Client.ts 213-222).
EncryptionFails(S, sessionId) ==
  /\ Encrypts(S, sessionId)
  /\ LET s == find(S, sessionId) IN
     ~(S.sess[s].encryptionKey /\ S.sess[s].signingKey)

\* Mutant of send: the connected test is missing.
send_noConnectedCheck(S, r) ==
  LET messageId == S.requests[r].messageId
      S1 == [S EXCEPT
               !.written = S.written \cup
                  {[messageId |-> messageId,
                    encrypted |-> Encrypts(S, S.requests[r].sessionId)]},
               !.timers = S.timers \cup {r},
               !.requestTimeoutIdMap = MapSet(S.requestTimeoutIdMap, messageId, r),
               !.requests[r].st = "pending"]
  IN
  IF Has(S1.responseMap, messageId)
  THEN LET S2 == finishRequest(S1, r, S1.responseMap[messageId]) IN
       [S2 EXCEPT !.responseMap = MapDelete(S2.responseMap, messageId)]
  ELSE IF ~Has(S1.responseCallbackMap, messageId)
       THEN [S1 EXCEPT !.responseCallbackMap =
                         MapSet(S1.responseCallbackMap, messageId, r)]
       ELSE S1

\* Mutant of send: a buffered response settles the request but stays in
\* responseMap.
send_keepsBuffered(S, r) ==
  LET messageId == S.requests[r].messageId IN
  IF ~S.connected
  THEN [S EXCEPT !.requests[r].st = "rejected",
                 !.requests[r].err = "not_connected"]
  ELSE
    LET S1 == [S EXCEPT
                 !.written = S.written \cup
                    {[messageId |-> messageId,
                      encrypted |-> Encrypts(S, S.requests[r].sessionId)]},
                 !.timers = S.timers \cup {r},
                 !.requestTimeoutIdMap = MapSet(S.requestTimeoutIdMap, messageId, r),
                 !.requests[r].st = "pending"]
    IN
    IF Has(S1.responseMap, messageId)
    THEN finishRequest(S1, r, S1.responseMap[messageId])
    ELSE IF ~Has(S1.responseCallbackMap, messageId)
         THEN [S1 EXCEPT !.responseCallbackMap =
                           MapSet(S1.responseCallbackMap, messageId, r)]
         ELSE S1

\* Mutant of send: the waiter is registered whether or not a response is
\* buffered (the buffered response is left for onResponse to reconcile).
send_alwaysRegisters(S, r) ==
  LET messageId == S.requests[r].messageId IN
  IF ~S.connected
  THEN [S EXCEPT !.requests[r].st = "rejected",
                 !.requests[r].err = "not_connected"]
  ELSE [S EXCEPT
          !.written = S.written \cup
             {[messageId |-> messageId,
               encrypted |-> Encrypts(S, S.requests[r].sessionId)]},
          !.timers = S.timers \cup {r},
          !.requestTimeoutIdMap = MapSet(S.requestTimeoutIdMap, messageId, r),
          !.requests[r].st = "pending",
          !.responseCallbackMap = MapSet(S.responseCallbackMap, messageId, r)]

\* Client.send up to the creation of sendPromise (Client.ts 204-259). The
\* code that awaits the promise is resumed by the caller of this operator.
send(S, r) ==
  LET messageId == S.requests[r].messageId IN
  IF ~S.connected
  THEN [S EXCEPT !.requests[r].st = "rejected",
                 !.requests[r].err = "not_connected"]
  ELSE IF EncryptionFails(S, S.requests[r].sessionId)
  THEN [S EXCEPT !.requests[r].st = "rejected",
                 !.requests[r].err = "encryption"]
  ELSE
    LET S1 == [S EXCEPT
                 !.written = S.written \cup
                    {[messageId |-> messageId,
                      encrypted |-> Encrypts(S, S.requests[r].sessionId)]},
                 !.timers = S.timers \cup {r},
                 !.requestTimeoutIdMap = MapSet(S.requestTimeoutIdMap, messageId, r),
                 !.requests[r].st = "pending"]
    IN
    IF Has(S1.responseMap, messageId)
    THEN LET S2 == finishRequest(S1, r, S1.responseMap[messageId]) IN
         [S2 EXCEPT !.responseMap = MapDelete(S2.responseMap, messageId)]
    ELSE IF ~Has(S1.responseCallbackMap, messageId)
         THEN [S1 EXCEPT !.responseCallbackMap =
                           MapSet(S1.responseCallbackMap, messageId, r)]
         ELSE S1

\* Mutant of onResponse: the response goes to the oldest registered waiter
\* (matching by arrival order instead of by message id).
onResponse_firstWaiter(S, response) ==
  LET S1 == IF response.type = ChangeNotify /\ response.status = Success
            THEN [S EXCEPT !.emitted = TRUE]
            ELSE S
      waiting == DOMAIN S1.responseCallbackMap
  IN
  IF waiting # {}
  THEN LET messageId == CHOOSE k \in waiting : \A j \in waiting : k <= j
           S2 == finishRequest(S1, S1.responseCallbackMap[messageId], response)
       IN [S2 EXCEPT !.responseCallbackMap = MapDelete(S2.responseCallbackMap, messageId)]
  ELSE [S1 EXCEPT !.responseMap = MapSet(S1.responseMap, response.messageId, response),
                  !.buffered = TRUE]

\* Client.onResponse (Client.ts 315-330), without the continuations.
onResponse(S, response) ==
  LET S1 == IF response.type = ChangeNotify /\ response.status = Success
            THEN [S EXCEPT !.emitted = TRUE]
            ELSE S
      messageId == response.messageId
  IN
  IF Has(S1.responseCallbackMap, messageId)
  THEN LET S2 == finishRequest(S1, S1.responseCallbackMap[messageId], response) IN
       [S2 EXCEPT !.responseCallbackMap = MapDelete(S2.responseCallbackMap, messageId)]
  ELSE [S1 EXCEPT !.responseMap = MapSet(S1.responseMap, messageId, response),
                  !.buffered = TRUE]

\* Client.onData for one frame (Client.ts 282-312). A Transform frame is
\* decrypted with the keys of the session its envelope names; decryptMessage
\* throws when a key is missing (Client.ts 122-124) or when the tag does not
\* verify (decipher.final(), part_004 185-186), and then the frame is
\* skipped after console.error; so it is when no session with a decryption
\* key is found.
onData(S, frame) ==
  IF frame.transform
  THEN LET s == find(S, frame.sessionId) IN
       IF s # 0 /\ S.sess[s].decryptionKey
       THEN IF S.sess[s].signingKey /\ frame.intact
            THEN onResponse(S, frame)
            ELSE [S EXCEPT !.dropped = TRUE]
       ELSE [S EXCEPT !.dropped = TRUE]
  ELSE onResponse(S, frame)

\* Mutant of requestTimeout: the expiry also unregisters the waiter.
requestTimeout_unregisters(S, r) ==
  LET S1 == [S EXCEPT !.timers = S.timers \ {r},
                      !.responseCallbackMap =
                         MapDelete(S.responseCallbackMap, S.requests[r].messageId)]
  IN
  IF S1.requests[r].st = "pending"
  THEN [S1 EXCEPT !.requests[r].st = "rejected",
                  !.requests[r].err = "request_timeout"]
  ELSE S1

\* The setTimeout callback of send (Client.ts 228-234): rejects the promise.
requestTimeout(S, r) ==
  LET S1 == [S EXCEPT !.timers = S.timers \ {r}] IN
  IF S1.requests[r].st = "pending"
  THEN [S1 EXCEPT !.requests[r].st = "rejected",
                  !.requests[r].err = "request_timeout"]
  ELSE S1

\* Mutant of onClose: the waiters are dropped when the socket closes.
onClose_dropsWaiters(S) ==
  [S EXCEPT !.connected = FALSE, !.responseCallbackMap = EmptyMap]

\* Mutant of onClose: the request timers are cancelled when the socket
\* closes.
onClose_clearsTimers(S) == [S EXCEPT !.connected = FALSE, !.timers = {}]

\* Client.onClose (Client.ts 336-338).
onClose(S) == [S EXCEPT !.connected = FALSE]

\* Client.destroySocket (Client.ts 355-364): listeners removed, socket
\* ended, destroyed and deleted.
destroySocket(S) == [S EXCEPT !.socket = "undefined"]

UserOwner == [k |-> "user", s |-> 0, c |-> 0]

NoCloseCall == [st |-> "none", waiting |-> {}]

\* No connect() call has been made: no Socket exists and Client.socket is
\* undefined (current = 0).
NoSockets == [list |-> <<>>, current |-> 0, connectTimeoutId |-> 0]

\* No message has been given to Client.encryptMessage.
NoWire ==
  [message |-> <<>>, sessionId |-> "", nonce |-> <<>>, key |-> 0,
   out |-> <<>>, returned |-> FALSE]

(* --------------------------- NetBIOS framer ---------------------------- *)

\* The 4-byte NetBIOS session-service header of a payload of len bytes:
\* type 0x00 and the length in 24 bits, big-endian.
NetBiosHeader(len) ==
  <<0, (len \div 65536) % 256, (len \div 256) % 256, len % 256>>

\* A payload as it is on the wire.
Frame(payload) == NetBiosHeader(Len(payload)) \o payload

RECURSIVE Concat(_)
\* Buffer.concat of a list of buffers.
Concat(buffers) ==
  IF buffers = <<>> THEN <<>> ELSE Head(buffers) \o Concat(Tail(buffers))

RECURSIVE getChunks(_)
\* Packet.getChunks: the payloads of the complete frames at the start of
\* buffer, and the bytes after them; an incomplete frame, header and
\* partial body, is left in restChunk. A type byte other than 0x00 throws
\* no_net_bios_message.
getChunks(buffer) ==
  IF buffer = <<>>
  THEN [chunks |-> <<>>, restChunk |-> <<>>, throws |-> FALSE]
  ELSE IF buffer[1] # 0
  THEN [chunks |-> <<>>, restChunk |-> <<>>, throws |-> TRUE]
  ELSE IF Len(buffer) < 4
  THEN [chunks |-> <<>>, restChunk |-> buffer, throws |-> FALSE]
  ELSE LET packetLength == buffer[2] * 65536 + buffer[3] * 256 + buffer[4] IN
       IF Len(buffer) < 4 + packetLength
       THEN [chunks |-> <<>>, restChunk |-> buffer, throws |-> FALSE]
       ELSE LET next == getChunks(SubSeq(buffer, 5 + packetLength, Len(buffer))) IN
            [next EXCEPT !.chunks = <<SubSeq(buffer, 5, 4 + packetLength)>> \o @]

\* Mutant of onDataBytes: the bytes left over by the event before are not
\* put in front of the new ones.
onDataBytes_noCarry(F, buffer) ==
  LET got == getChunks(buffer) IN
  IF got.throws
  THEN [F EXCEPT !.responseRestChunk = <<>>, !.thrown = TRUE]
  ELSE [F EXCEPT !.responseRestChunk = got.restChunk,
                 !.chunks = F.chunks \o got.chunks]

\* Client.onData (Client.ts 271-282) on the bytes of one "data" event: the
\* bytes left over are put in front, getChunks splits the buffer, what it
\* leaves over is kept, and the chunks go on to be parsed. When getChunks
\* throws, responseRestChunk has been reset and nothing is kept.
onDataBytes(F, buffer) ==
  LET got == getChunks(F.responseRestChunk \o buffer) IN
  IF got.throws
  THEN [F EXCEPT !.responseRestChunk = <<>>, !.thrown = TRUE]
  ELSE [F EXCEPT !.responseRestChunk = got.restChunk,
                 !.chunks = F.chunks \o got.chunks]

(* ------------------------- Session and close --------------------------- *)

\* Client.registerSession (Client.ts 366-370), the "authenticate" listener:
\* registered with once(), it pushes the session and is removed.
emitAuthenticate(S, s) ==
  IF S.sess[s].onAuthenticate
  THEN [S EXCEPT !.sessions = Append(S.sessions, s),
                 !.sess[s].onAuthenticate = FALSE]
  ELSE S

\* Array.prototype.splice(indexOf(x), 1): indexOf is -1 when x is absent,
\* and splice(-1, 1) removes the last element.
SpliceOut(list, x) ==
  IF \E i \in 1 .. Len(list) : list[i] = x
  THEN LET i == CHOOSE k \in 1 .. Len(list) :
                  list[k] = x /\ \A j \in 1 .. (k - 1) : list[j] # x
       IN SubSeq(list, 1, i - 1) \o SubSeq(list, i + 1, Len(list))
  ELSE SubSeq(list, 1, Len(list) - 1)

\* Client.registerSession (Client.ts 366-370), the "logoff" listener.
emitLogoff(S, s) ==
  IF S.sess[s].onLogoff
  THEN [S EXCEPT !.sessions = SpliceOut(S.sessions, s),
                 !.sess[s].onLogoff = FALSE]
  ELSE S

\* Client.close after `await Promise.all(...)` (Client.ts 377-379).
\* destroySocket dereferences this.socket: a TypeError when it is undefined.
closeFinish(S, c) ==
  IF S.socket = "undefined"
  THEN [S EXCEPT !.closeCalls[c] = NoCloseCall,
                 !.failed = S.failed \cup {"close"}]
  ELSE LET S1 == destroySocket(S) IN
       [S1 EXCEPT !.connected = FALSE,
                  !.closeCalls[c] = NoCloseCall,
                  !.done = S.done \cup {"close"}]

\* A logoff() promise was fulfilled: Promise.all of close call c (0 when the
\* application called logoff) is fulfilled once all of them are.
logoffDone(S, s, c) ==
  LET S1 == [S EXCEPT !.done = S.done \cup {"logoff"}] IN
  IF c # 0 /\ S1.closeCalls[c].st = "waiting" /\ s \in S1.closeCalls[c].waiting
  THEN LET w == S1.closeCalls[c].waiting \ {s} IN
       IF w = {} THEN closeFinish(S1, c)
       ELSE [S1 EXCEPT !.closeCalls[c].waiting = w]
  ELSE S1

\* A logoff() promise was rejected: Promise.all rejects, and so does close().
logoffFailed(S, s, c) ==
  LET S1 == [S EXCEPT !.failed = S.failed \cup {"logoff"}] IN
  IF c # 0 /\ S1.closeCalls[c].st = "waiting" /\ s \in S1.closeCalls[c].waiting
  THEN [S1 EXCEPT !.closeCalls[c] = NoCloseCall,
                  !.failed = S1.failed \cup {"close"}]
  ELSE S1

\* The listeners of Session.registerTree (Session.ts 116-120).
emitConnect(S, t) ==
  IF S.tree[t].onConnect
  THEN [S EXCEPT !.sess[S.tree[t].session].connectedTrees = Append(@, t),
                 !.tree[t].onConnect = FALSE]
  ELSE S

emitDisconnect(S, t) ==
  IF S.tree[t].onDisconnect
  THEN [S EXCEPT !.sess[S.tree[t].session].connectedTrees = SpliceOut(@, t),
                 !.tree[t].onDisconnect = FALSE]
  ELSE S

\* The listeners of Tree.registerFile and Tree.registerDirectory.
emitOpen(S, h) ==
  IF S.handle[h].onOpen
  THEN IF S.handle[h].kind = "file"
       THEN [S EXCEPT !.tree[S.handle[h].tree].openFiles = Append(@, h),
                      !.handle[h].onOpen = FALSE]
       ELSE [S EXCEPT !.tree[S.handle[h].tree].openDirectories = Append(@, h),
                      !.handle[h].onOpen = FALSE]
  ELSE S

emitClose(S, h) ==
  IF S.handle[h].onClose
  THEN IF S.handle[h].kind = "file"
       THEN [S EXCEPT !.tree[S.handle[h].tree].openFiles = SpliceOut(@, h),
                      !.handle[h].onClose = FALSE]
       ELSE [S EXCEPT !.tree[S.handle[h].tree].openDirectories = SpliceOut(@, h),
                      !.handle[h].onClose = FALSE]
  ELSE S

NoCall == [st |-> "none", waiting |-> {}, by |-> "", was |-> {}]

\* Does the share require encryption (SMB2_SHAREFLAG_ENCRYPT_DATA)?
shareRequiresEncryption(shareFlags) == (shareFlags \div 8) % 2 # 0

\* The elements of an array.
Elements(list) == {list[i] : i \in 1 .. Len(list)}

RECURSIVE request(_, _, _)
RECURSIVE settled(_, _)
RECURSIVE resume(_, _)
RECURSIVE logoffRequest(_, _)
RECURSIVE disconnectDone(_, _, _, _)
RECURSIVE disconnectRequest(_, _)
RECURSIVE handleCloseDone(_, _, _, _)
RECURSIVE handleClose(_, _, _)

\* Client.request (Client.ts 110-113): createRequest, then send. When the
\* promise of send is settled at once, the awaiting code goes on.
request(S, header, owner) ==
  LET S1 == createRequest(S, header, owner)
      r == Len(S1.requests)
      S2 == send(S1, r)
  IN IF S2.requests[r].st = "pending" THEN S2 ELSE settled(S2, r)

\* The promise of send(r) is settled: send itself goes on after its await,
\* then the code that awaits send.
settled(S, r) == resume(clearRequestTimeout(S, r), r)

\* Mutant of connectFinish: encryption is enabled for a share that requires
\* it whether the session has keys or not.
connectFinish_withoutKeys(S, t, response) ==
  LET s == S.tree[t].session
      S1 == IF shareRequiresEncryption(response.shareFlags)
            THEN [S EXCEPT !.sess[s].encryptionEnabled = TRUE]
            ELSE S
  IN emitConnect([S1 EXCEPT !.tree[t].connecting = FALSE,
                            !.tree[t].connected = TRUE,
                            !.done = S1.done \cup {"connect"}], t)

\* Tree.connect after a TreeConnect response (part_013 57-78).
connectFinish(S, t, response) ==
  LET s == S.tree[t].session
      S1 == IF /\ shareRequiresEncryption(response.shareFlags)
               /\ S.sess[s].encryptionKey
               /\ S.sess[s].decryptionKey
               /\ ~S.sess[s].encryptionEnabled
            THEN [S EXCEPT !.sess[s].encryptionEnabled = TRUE]
            ELSE S
  IN emitConnect([S1 EXCEPT !.tree[t].connecting = FALSE,
                            !.tree[t].connected = TRUE,
                            !.done = S1.done \cup {"connect"}], t)

\* connect() of tree t throws the error that rejected its request r
\* (part_013 51, 53): the response, or the Error of send or of the timeout.
connectThrows(S, r) ==
  [S EXCEPT !.failed = S.failed \cup {"connect"},
            !.thrown = S.thrown \cup
               {[t |-> S.requests[r].owner.t, err |-> S.requests[r].err,
                 status |-> S.requests[r].resp.status]}]

\* Mutant of connectCatch: the retry is made without enabling encryption.
connectCatch_noEnable(S, r) ==
  LET o == S.requests[r].owner
      s == S.tree[o.t].session
  IN
  IF /\ S.requests[r].err = "response"
     /\ S.requests[r].resp.status = AccessDenied
     /\ S.sess[s].encryptionKey
     /\ S.sess[s].decryptionKey
     /\ ~S.sess[s].encryptionEnabled
  THEN request(S, [type |-> TreeConnect, sessionId |-> S.sess[s]._id],
               [o EXCEPT !.k = "treeConnectRetry"])
  ELSE connectThrows(S, r)

\* Mutant of connectCatch: the retry is made whatever the status was.
connectCatch_anyStatus(S, r) ==
  LET o == S.requests[r].owner
      s == S.tree[o.t].session
  IN
  IF /\ S.requests[r].err = "response"
     /\ S.sess[s].encryptionKey
     /\ S.sess[s].decryptionKey
     /\ ~S.sess[s].encryptionEnabled
  THEN request([S EXCEPT !.sess[s].encryptionEnabled = TRUE],
               [type |-> TreeConnect, sessionId |-> S.sess[s]._id],
               [o EXCEPT !.k = "treeConnectRetry"])
  ELSE connectThrows(S, r)

\* The catch block of Tree.connect (part_013 43-56), entered when the first
\* TreeConnect request r was rejected: only an error that carries a header
\* (a response) has a status; the retry is awaited inside the catch block,
\* so its failure is thrown as it is.
connectCatch(S, r) ==
  LET o == S.requests[r].owner
      s == S.tree[o.t].session
  IN
  IF /\ S.requests[r].err = "response"
     /\ S.requests[r].resp.status = AccessDenied
     /\ S.sess[s].encryptionKey
     /\ S.sess[s].decryptionKey
     /\ ~S.sess[s].encryptionEnabled
  THEN request([S EXCEPT !.sess[s].encryptionEnabled = TRUE],
               [type |-> TreeConnect, sessionId |-> S.sess[s]._id],
               [o EXCEPT !.k = "treeConnectRetry"])
  ELSE connectThrows(S, r)

\* A call of Tree.request or of a convenience operation of tree t, with
\* handle h (0 for Tree.request), as ops keeps it.
TreeCall(S, op, t, h, outcome) ==
  [op |-> op, t |-> t, h |-> h, connected |-> S.tree[t].connected,
   outcome |-> outcome]

\* The convenience operation that made handle h returns or throws.
OperationEnds(S, h, outcome) ==
  [S EXCEPT !.ops = S.ops \cup
     {TreeCall(S, "operation", S.handle[h].tree, h, outcome)}]

\* String.prototype.toUpperCase on the host names of the model.
ToUpperCase(str) ==
  CASE str = "fileserver" -> "FILESERVER"
    [] str = "laptop" -> "LAPTOP"
    [] str = "laptop.example.org" -> "LAPTOP.EXAMPLE.ORG"
    [] OTHER -> str

\* isNTLMv1 (part_007 21-23): the ExtendedSessionSecurity flag is not set.
\* Negotiate flags are the set of the flag names that are set; 0 is {}.
isNTLMv1(negotiateFlags) == "ExtendedSessionSecurity" \notin negotiateFlags

\* encodeNegotiationMessage (part_007 60-113): the Type 1 message. The
\* workstation field is the first argument in upper case; the NTLMv2 flags
\* are added when v2 is forced, or nothing is forced and the environment
\* does not default to v1.
encodeNegotiationMessage(S, hostname, forceNtlmVersion) ==
  [ntlm |-> 1, workstation |-> ToUpperCase(hostname),
   version |-> IF \/ forceNtlmVersion = "v2"
                  \/ (forceNtlmVersion = "" /\ S.setting.defaultNtlm # "v1")
               THEN "v2" ELSE "v1"]

\* decodeChallengeMessage (part_007 189-221): throws unless the buffer
\* starts with the NTLMSSP signature and is of type 2; it reads the
\* negotiate flags and returns the server challenge only.
decodeChallengeMessage(buffer) ==
  [throws |-> ~buffer.wellFormed, serverChallenge |-> "nonce"]

\* encodeAuthenticationMessage (part_007 223-357): the Type 3 message,
\* with NTLMv1 responses when useV1 (238-240) and NTLMv2 responses
\* otherwise.
encodeAuthenticationMessage(S, hostname, negotiateFlags, forceNtlmVersion) ==
  LET useV1 == \/ forceNtlmVersion = "v1"
               \/ (isNTLMv1(negotiateFlags) /\ forceNtlmVersion # "v2")
               \/ (S.setting.defaultNtlm = "v1" /\ forceNtlmVersion = "")
  IN [ntlm |-> 3, workstation |-> ToUpperCase(hostname),
      version |-> IF useV1 THEN "v1" ELSE "v2"]

\* Mutant of authenticateCatch: every error is replaced by the readable
\* sharing-violation error.
authenticateCatch_alwaysHint(S, s, error) ==
  [S EXCEPT !.failed = S.failed \cup {"authenticate"},
            !.authThrown = S.authThrown \cup
               {[s |-> s, err |-> "sharing_violation_message", status |-> ""]}]

\* The catch block of Session.authenticate (Session.ts 107-113): a rejected
\* response with status SharingViolation is replaced by an Error with a
\* readable message, anything else is thrown again as it is.
authenticateCatch(S, s, error) ==
  LET S1 == [S EXCEPT !.failed = S.failed \cup {"authenticate"}] IN
  IF error.err = "response" /\ error.status = SharingViolation
  THEN [S1 EXCEPT !.authThrown = S.authThrown \cup
                     {[s |-> s, err |-> "sharing_violation_message", status |-> ""]}]
  ELSE [S1 EXCEPT !.authThrown = S.authThrown \cup
                     {[s |-> s, err |-> error.err, status |-> error.status]}]

\* What a rejected request r throws into the code that awaits it.
Rejection(S, r) ==
  [err |-> S.requests[r].err,
   status |-> IF S.requests[r].err = "response"
              THEN S.requests[r].resp.status ELSE ""]

\* The code that awaits request r, by owner: the application (nothing to
\* do in the model), Session.authenticate after each of its three requests
\* (Session.ts 69-113), Session.logoff after LogOff (Session.ts 128-131),
\* Tree.connect after TreeConnect and after its retry (part_013 40-78),
\* Tree.disconnect after TreeDisconnect (part_013 90-92), open and close of
\* a File or Directory after Create and Close, Tree.request, and a
\* convenience operation of Tree after each of its awaits (part_013 95-208).
resume(S, r) ==
  LET o == S.requests[r].owner
      ok == S.requests[r].st = "resolved"
  IN
  CASE o.k = "user" -> S
    [] o.k = "negotiate" ->
         IF ok
         THEN request(S, [type |-> SessionSetup, sessionId |-> S.sess[o.s]._id,
                          body |-> encodeNegotiationMessage(
                                     S, S.setting.host, o.forceNtlmVersion)],
                      [o EXCEPT !.k = "setup1"])
         ELSE authenticateCatch(S, o.s, Rejection(S, r))
    [] o.k = "setup1" ->
         IF ok
         THEN LET S1 == [S EXCEPT !.sess[o.s]._id = S.requests[r].resp.sessionId]
                  nonce == decodeChallengeMessage(S.requests[r].resp.buffer)
              IN IF nonce.throws
                 THEN authenticateCatch(S1, o.s,
                        [err |-> "ntlmssp_header_not_found", status |-> ""])
                 ELSE request(S1, [type |-> SessionSetup,
                                   sessionId |-> S1.sess[o.s]._id,
                                   body |-> encodeAuthenticationMessage(
                                              S1, S1.setting.host, {},
                                              o.forceNtlmVersion)],
                              [o EXCEPT !.k = "setup2"])
         ELSE authenticateCatch(S, o.s, Rejection(S, r))
    [] o.k = "setup2" ->
         IF ok
         THEN LET S1 == [S EXCEPT !.sess[o.s].authenticated = TRUE,
                                  !.done = S.done \cup {"authenticate"}]
              IN emitAuthenticate(S1, o.s)
         ELSE authenticateCatch(S, o.s, Rejection(S, r))
    [] o.k = "logoff" ->
         IF ok
         THEN LET S1 == [S EXCEPT !.sess[o.s]._id = Undefined,
                                  !.loggedOff = S.loggedOff \cup {o.s}]
              IN logoffDone(emitLogoff(S1, o.s), o.s, o.c)
         ELSE logoffFailed(S, o.s, o.c)
    [] o.k = "treeConnect" ->
         IF ok THEN connectFinish(S, o.t, S.requests[r].resp)
         ELSE connectCatch(S, r)
    [] o.k = "treeConnectRetry" ->
         IF ok THEN connectFinish(S, o.t, S.requests[r].resp)
         ELSE connectThrows(S, r)
    [] o.k = "treeDisconnect" ->
         IF ok
         THEN LET S1 == [S EXCEPT !.disconnected =
                                     S.disconnected \cup {[t |-> o.t, was |-> o.was]}]
              IN disconnectDone(emitDisconnect(S1, o.t), o.t, o.by, TRUE)
         ELSE disconnectDone(S, o.t, o.by, FALSE)
    [] o.k = "handleOpen" ->
         IF ok
         THEN emitOpen([S EXCEPT !.handle[o.h].isOpen = TRUE,
                                 !.done = S.done \cup {"open"}], o.h)
         ELSE [S EXCEPT !.failed = S.failed \cup {"open"}]
    [] o.k = "handleClose" ->
         IF ok
         THEN handleCloseDone(emitClose(S, o.h), o.h, o.by, TRUE)
         ELSE handleCloseDone(S, o.h, o.by, FALSE)
    [] o.k = "treeRequest" ->
         [S EXCEPT !.ops = S.ops \cup
            {TreeCall(S, "request", o.t, 0, IF ok THEN "returned" ELSE "thrown")}]
    [] o.k = "operationOpen" ->
         IF ok
         THEN LET S1 == emitOpen([S EXCEPT !.handle[o.h].isOpen = TRUE], o.h) IN
              IF o.act
              THEN request(S1, [type |-> SetInfo,
                                sessionId |-> S1.sess[S1.tree[S1.handle[o.h].tree].session]._id],
                           [k |-> "operationAct", h |-> o.h])
              ELSE handleClose(S1, o.h, "operation")
         ELSE OperationEnds(S, o.h, "thrown")
    [] o.k = "operationAct" ->
         IF ok
         THEN handleClose(S, o.h, "operation")
         ELSE OperationEnds(S, o.h, "thrown")

\* The options of authenticate, as far as the NTLM version goes:
\* forceNtlmVersion is "v1", "v2" or "" when it is not given.
NoOptions == [forceNtlmVersion |-> ""]

\* Mutant of authenticate: the Negotiate exchange is left out.
authenticate_skipsNegotiate(S, s, options) ==
  IF S.sess[s].authenticated
  THEN [S EXCEPT !.done = S.done \cup {"authenticate"}]
  ELSE request(S, [type |-> SessionSetup, sessionId |-> S.sess[s]._id,
                   body |-> encodeNegotiationMessage(
                              S, S.setting.host, options.forceNtlmVersion)],
               [k |-> "setup1", s |-> s, c |-> 0,
                forceNtlmVersion |-> options.forceNtlmVersion])

\* Session.authenticate up to its first await (Session.ts 66-78).
authenticate(S, s, options) ==
  IF S.sess[s].authenticated
  THEN [S EXCEPT !.done = S.done \cup {"authenticate"}]
  ELSE request(S, [type |-> Negotiate, sessionId |-> S.sess[s]._id],
               [k |-> "negotiate", s |-> s, c |-> 0,
                forceNtlmVersion |-> options.forceNtlmVersion])

\* Session.logoff after `await Promise.all(...)` (Session.ts 128): the
\* LogOff request.
logoffRequest(S, s) ==
  LET c == S.sess[s].logoffCall.c
      S1 == [S EXCEPT !.sess[s].logoffCall = NoCall]
  IN request(S1, [type |-> LogOff, sessionId |-> S1.sess[s]._id],
             [k |-> "logoff", s |-> s, c |-> c, was |-> S.sess[s].logoffCall.was])

\* A disconnect() promise of tree t is settled; by says who awaits it: the
\* application, or Promise.all of the session's logoff (Session.ts 126).
disconnectDone(S, t, by, ok) ==
  LET s == S.tree[t].session
      S1 == IF ok
            THEN [S EXCEPT !.done = S.done \cup {"disconnect"}]
            ELSE [S EXCEPT !.failed = S.failed \cup {"disconnect"}]
      call == S1.sess[s].logoffCall
  IN
  IF by = "logoff" /\ call.st = "waiting" /\ t \in call.waiting
  THEN IF ok
       THEN LET w == call.waiting \ {t} IN
            IF w = {} THEN logoffRequest(S1, s)
            ELSE [S1 EXCEPT !.sess[s].logoffCall.waiting = w]
       ELSE logoffFailed([S1 EXCEPT !.sess[s].logoffCall = NoCall], s, call.c)
  ELSE S1

\* Tree.disconnect after `await Promise.all([...])` (part_013 90): the
\* TreeDisconnect request.
disconnectRequest(S, t) ==
  LET call == S.tree[t].disc
      S1 == [S EXCEPT !.tree[t].disc = NoCall]
  IN request(S1, [type |-> TreeDisconnect, sessionId |-> S1.sess[S1.tree[t].session]._id],
             [k |-> "treeDisconnect", t |-> t, by |-> call.by, was |-> call.was])

\* A close() promise of handle h is settled; by says who awaits it: the
\* application, Promise.all of the tree's disconnect (part_013 85-88), or
\* the convenience operation that made the handle.
handleCloseDone(S, h, by, ok) ==
  LET t == S.handle[h].tree
      S0 == IF ok THEN [S EXCEPT !.done = S.done \cup {"closeHandle"}]
            ELSE [S EXCEPT !.failed = S.failed \cup {"closeHandle"}]
      S1 == IF by = "operation"
            THEN OperationEnds(S0, h, IF ok THEN "returned" ELSE "thrown")
            ELSE S0
      call == S1.tree[t].disc
  IN
  IF by = "disconnect" /\ call.st = "waiting" /\ h \in call.waiting
  THEN IF ok
       THEN LET w == call.waiting \ {h} IN
            IF w = {} THEN disconnectRequest(S1, t)
            ELSE [S1 EXCEPT !.tree[t].disc.waiting = w]
       ELSE disconnectDone([S1 EXCEPT !.tree[t].disc = NoCall], t, call.by, FALSE)
  ELSE S1

\* close() of a File or Directory: nothing when the handle is not open;
\* else isOpen is cleared, the Close request is made and "close" is emitted
\* when it has succeeded.
handleClose(S, h, by) ==
  IF ~S.handle[h].isOpen
  THEN handleCloseDone(S, h, by, TRUE)
  ELSE request([S EXCEPT !.handle[h].isOpen = FALSE],
               [type |-> CloseType, sessionId |-> S.sess[S.tree[S.handle[h].tree].session]._id],
               [k |-> "handleClose", h |-> h, by |-> by])

\* open() of a File or Directory: nothing when the handle is open; else the
\* Create request is made, and isOpen is set and "open" emitted when it has
\* succeeded.
handleOpen(S, h) ==
  IF S.handle[h].isOpen
  THEN [S EXCEPT !.done = S.done \cup {"open"}]
  ELSE request(S, [type |-> Create, sessionId |-> S.sess[S.tree[S.handle[h].tree].session]._id],
               [k |-> "handleOpen", h |-> h])

RECURSIVE closeAll(_, _)
\* [...openFiles.map(x => x.close()), ...openDirectories.map(x => x.close())]
closeAll(S, list) ==
  IF list = <<>> THEN S
  ELSE closeAll(handleClose(S, Head(list), "disconnect"), Tail(list))

\* Mutant of disconnect: TreeDisconnect is requested without closing the
\* open files and directories.
disconnect_leavesHandles(S, t, by) ==
  IF ~S.tree[t].connected
  THEN disconnectDone(
         [S EXCEPT !.disconnected = S.disconnected \cup
            {[t |-> t, was |-> Elements(S.tree[t].openFiles \o S.tree[t].openDirectories)]}],
         t, by, TRUE)
  ELSE LET list == S.tree[t].openFiles \o S.tree[t].openDirectories
           S1 == [S EXCEPT !.tree[t].connected = FALSE,
                           !.tree[t].disc = [st |-> "waiting", waiting |-> {},
                                             by |-> by, was |-> Elements(list)]]
       IN disconnectRequest(S1, t)

\* Tree.disconnect (part_013 81-93), called by the application or by the
\* logoff of its session.
disconnect(S, t, by) ==
  IF ~S.tree[t].connected
  THEN disconnectDone(
         [S EXCEPT !.disconnected = S.disconnected \cup
            {[t |-> t, was |-> Elements(S.tree[t].openFiles \o S.tree[t].openDirectories)]}],
         t, by, TRUE)
  ELSE LET list == S.tree[t].openFiles \o S.tree[t].openDirectories
           S1 == [S EXCEPT !.tree[t].connected = FALSE,
                           !.tree[t].disc = [st |-> "waiting", waiting |-> Elements(list),
                                             by |-> by, was |-> Elements(list)]]
       IN IF list = <<>> THEN disconnectRequest(S1, t) ELSE closeAll(S1, list)

\* Mutant of connect: the connected / connecting test is missing.
connect_always(S, t) ==
  request([S EXCEPT !.tree[t].connecting = TRUE],
          [type |-> TreeConnect, sessionId |-> S.sess[S.tree[t].session]._id],
          [k |-> "treeConnect", t |-> t])

\* Tree.connect (part_013 31-42) up to its first await.
connect(S, t) ==
  IF S.tree[t].connected \/ S.tree[t].connecting
  THEN [S EXCEPT !.done = S.done \cup {"connect"}]
  ELSE request([S EXCEPT !.tree[t].connecting = TRUE],
               [type |-> TreeConnect, sessionId |-> S.sess[S.tree[t].session]._id],
               [k |-> "treeConnect", t |-> t])

\* Session.connectTree (Session.ts 41-47): a new Tree, registerTree,
\* tree.connect.
connectTree(S, s, t) ==
  connect([S EXCEPT !.tree[t] = [created |-> TRUE, session |-> s,
                                 connected |-> FALSE, connecting |-> FALSE,
                                 openFiles |-> <<>>, openDirectories |-> <<>>,
                                 onConnect |-> TRUE, onDisconnect |-> TRUE,
                                 disc |-> NoCall]], t)

\* The start of a convenience operation of Tree (part_013 95-220): a new
\* File or Directory, registerFile or registerDirectory, open (or create).
openHandle(S, t, h, kind) ==
  handleOpen([S EXCEPT !.handle[h] = [created |-> TRUE, tree |-> t, kind |-> kind,
                                      isOpen |-> FALSE,
                                      onOpen |-> TRUE, onClose |-> TRUE]], h)

\* A convenience operation of Tree (part_013 95-208) up to its first await:
\* a new File or Directory, registerFile or registerDirectory, and open,
\* create or exists. act says whether the operation awaits a step between
\* that and close (remove, rename, read, setSize and write).
operation(S, t, h, kind, act) ==
  LET S1 == [S EXCEPT !.handle[h] = [created |-> TRUE, tree |-> t, kind |-> kind,
                                     isOpen |-> FALSE,
                                     onOpen |-> TRUE, onClose |-> TRUE],
                      !.ops = S.ops \cup {TreeCall(S, "operation", t, h, "called")}]
  IN request(S1, [type |-> Create,
                  sessionId |-> S1.sess[S1.tree[t].session]._id],
             [k |-> "operationOpen", h |-> h, act |-> act])

\* Tree.request (part_013 244-252): the tree id is added to the header and
\* the request is handed to Session.request.
treeRequest(S, t, header) ==
  request([S EXCEPT !.ops = S.ops \cup {TreeCall(S, "request", t, 0, "called")}],
          [type |-> header.type,
           sessionId |-> S.sess[S.tree[t].session]._id],
          [k |-> "treeRequest", t |-> t])

RECURSIVE disconnectAll(_, _)
\* this.connectedTrees.map(x => x.disconnect()) (Session.ts 126).
disconnectAll(S, list) ==
  IF list = <<>> THEN S
  ELSE disconnectAll(disconnect(S, Head(list), "logoff"), Tail(list))

\* Mutant of logoff: the authenticated test is missing.
logoff_always(S, s, c) ==
  LET list == S.sess[s].connectedTrees
      S1 == [S EXCEPT !.sess[s].authenticated = FALSE,
                      !.sess[s].logoffCall =
                         [st |-> "waiting", waiting |-> Elements(list),
                          by |-> "", was |-> Elements(list), c |-> c]]
  IN IF list = <<>> THEN logoffRequest(S1, s) ELSE disconnectAll(S1, list)

\* Session.logoff (Session.ts 122-132), called by the application (c = 0)
\* or by close call c.
logoff(S, s, c) ==
  IF ~S.sess[s].authenticated
  THEN logoffDone([S EXCEPT !.loggedOff = S.loggedOff \cup {s}], s, c)
  ELSE LET list == S.sess[s].connectedTrees
           S1 == [S EXCEPT !.sess[s].authenticated = FALSE,
                           !.sess[s].logoffCall =
                              [st |-> "waiting", waiting |-> Elements(list),
                               by |-> "", was |-> Elements(list), c |-> c]]
       IN IF list = <<>> THEN logoffRequest(S1, s) ELSE disconnectAll(S1, list)

RECURSIVE logoffAll(_, _, _)
\* this.sessions.map(x => x.logoff()) of close call c.
logoffAll(S, list, c) ==
  IF list = <<>> THEN S
  ELSE logoffAll(logoff(S, Head(list), c), Tail(list), c)

\* Client.close (Client.ts 372-380) up to where it is suspended.
close(S, c) ==
  IF ~S.connected
  THEN [S EXCEPT !.done = S.done \cup {"close"}]
  ELSE LET list == S.sessions
           w == {list[i] : i \in 1 .. Len(list)}
           S1 == [S EXCEPT !.closeCalls[c] = [st |-> "waiting", waiting |-> w]]
       IN IF w = {} THEN closeFinish(S1, c) ELSE logoffAll(S1, list, c)

\* A Session object as its field initialisers leave it (Session.ts 30-33),
\* with the listeners of Client.registerSession.
NewSession ==
  [created |-> TRUE, _id |-> Undefined, authenticated |-> FALSE,
   encryptionEnabled |-> FALSE, encryptionKey |-> FALSE,
   decryptionKey |-> FALSE, signingKey |-> FALSE, dialectRevision |-> 0,
   connectedTrees |-> <<>>, logoffCall |-> NoCall,
   onAuthenticate |-> TRUE, onLogoff |-> TRUE]

\* Client.authenticate (Client.ts 346-353) on a connected client: a new
\* Session, registerSession, session.authenticate.
clientAuthenticate(S, s, options) ==
  authenticate([S EXCEPT !.sess[s] = NewSession], s, options)

(* ----------------------------- actions --------------------------------- *)

NoSession ==
  [NewSession EXCEPT !.created = FALSE, !.onAuthenticate = FALSE, !.onLogoff = FALSE]

NoTree ==
  [created |-> FALSE, session |-> 0, connected |-> FALSE, connecting |-> FALSE,
   openFiles |-> <<>>, openDirectories |-> <<>>,
   onConnect |-> FALSE, onDisconnect |-> FALSE, disc |-> NoCall]

NoHandle ==
  [created |-> FALSE, tree |-> 0, kind |-> "", isOpen |-> FALSE,
   onOpen |-> FALSE, onClose |-> FALSE]

\* The host given to the constructor (Client.ts 51), the host name of the
\* machine the client runs on, and the NTLM default of the environment.
DefaultSetting ==
  [host |-> "fileserver", osHostname |-> "laptop.example.org", defaultNtlm |-> ""]

\* No bytes are to come and none were received: frames are the payloads
\* the server sends, stream their bytes on the wire, segments the "data"
\* events so far, chunks the payloads that onData has got from getChunks,
\* and thrown whether getChunks has thrown; types holds the type byte of
\* each frame when the server does not send 0x00 in all of them.
NoFramer ==
  [frames |-> <<>>, types |-> <<>>, stream |-> <<>>, segments |-> <<>>,
   responseRestChunk |-> <<>>, chunks |-> <<>>, thrown |-> FALSE]

\* No macrotask has run.
NoOp ==
  [op |-> "", resp |-> NoResponse, emitted |-> FALSE,
   invoked |-> 0, buffered |-> FALSE, dropped |-> FALSE,
   done |-> {}, failed |-> {}, thrown |-> {}, authThrown |-> {},
   ops |-> {}, loggedOff |-> {}, disconnected |-> {}]

Init ==
  /\ connected = FALSE
  /\ socket = "undefined"
  /\ nextMessageId = 0
  /\ responseMap = EmptyMap
  /\ responseCallbackMap = EmptyMap
  /\ requestTimeoutIdMap = EmptyMap
  /\ timers = {}
  /\ requests = <<>>
  /\ written = {}
  /\ sessions = <<>>
  /\ sess = [s \in Sessions |-> NoSession]
  /\ tree = [t \in Trees |-> NoTree]
  /\ handle = [h \in Handles |-> NoHandle]
  /\ closeCalls = [c \in CloseCalls |-> NoCloseCall]
  /\ setting = DefaultSetting
  /\ framer = NoFramer
  /\ wire = NoWire
  /\ sockets = NoSockets
  /\ lastOp = NoOp

\* The session layer creates requests only while fewer than MaxSessionMsgs
\* exist.
Room(U) == Len(U.requests) > Len(requests) => Len(U.requests) <= MaxSessionMsgs

\* Client.connect (Client.ts 61-85) up to `await connectPromise`.
Connect ==
  /\ socket # "connecting"
  /\ IF connected
     THEN Becomes(State, "connect", 0, NoResponse)
     ELSE Becomes([State EXCEPT !.socket = "connecting"], "connect", 0, NoResponse)

\* The socket's "connect" event (Client.ts 79-81, 88-90).
ConnectOk ==
  /\ socket = "connecting"
  /\ Becomes([State EXCEPT !.socket = "open", !.connected = TRUE],
             "connectOk", 0, NoResponse)

\* The socket's "error" event or the connect timeout while connecting
\* (Client.ts 72-74, 82-84, 91-94).
ConnectFail ==
  /\ socket = "connecting"
  /\ Becomes(destroySocket(State), "connectFail", 0, NoResponse)

\* The application calls createRequest.
CreateRequest(type) ==
  /\ nextMessageId < MaxMsgs
  /\ Becomes(createRequest(State, [type |-> type, sessionId |-> Undefined], UserOwner),
             "createRequest", Len(requests) + 1, NoResponse)

\* The application calls send with a request it created.
Send(r) ==
  /\ requests[r].owner = UserOwner
  /\ requests[r].st = "created"
  /\ LET T == send(State, r) IN
     Becomes(IF T.requests[r].st = "pending" THEN T ELSE settled(T, r),
             "send", r, NoResponse)

\* A "data" event carrying one frame, parsed into response (Client.ts
\* 271-313), with the continuations of the promise it settles.
OnData(response) ==
  /\ socket = "open"
  /\ \/ Has(responseCallbackMap, response.messageId)
     \/ Has(responseMap, response.messageId)
     \/ Cardinality(DOMAIN responseMap) < MaxBuffered
  /\ LET T == onData(State, response)
         r == T.invoked
         U == IF r # 0 /\ requests[r].st = "pending" THEN settled(T, r) ELSE T
     IN /\ Room(U)
        /\ Becomes(U, "onData", response.messageId, response)

\* The request timeout of request r expires.
RequestTimeout(r) ==
  /\ r \in timers
  /\ LET T == requestTimeout(State, r)
         U == IF requests[r].st = "pending" THEN settled(T, r) ELSE T
     IN /\ Room(U)
        /\ Becomes(U, "requestTimeout", r, NoResponse)

\* The socket's "close" event on an established connection.
SocketClose ==
  /\ socket = "open"
  /\ Becomes([onClose(State) EXCEPT !.socket = "closed"], "onClose", 0, NoResponse)

\* The socket's "error" event on an established connection: onError logs
\* (Client.ts 332-334), and the "close" event follows in the same tick.
SocketError ==
  /\ socket = "open"
  /\ Becomes([onClose(State) EXCEPT !.socket = "closed"], "onError", 0, NoResponse)

\* The application calls close.
Close ==
  \E c \in CloseCalls :
    /\ closeCalls[c].st = "none"
    /\ \A d \in CloseCalls : d < c => closeCalls[d].st # "none"
    /\ LET U == close(State, c) IN
       /\ Room(U)
       /\ Becomes(U, "close", c, NoResponse)

\* The application calls Client.authenticate.
ClientAuthenticate(s) ==
  /\ connected
  /\ ~sess[s].created
  /\ \A t \in Sessions : t < s => sess[t].created
  /\ LET U == clientAuthenticate(State, s, NoOptions) IN
     /\ Room(U)
     /\ Becomes(U, "authenticate", s, NoResponse)

\* The application calls Client.authenticate with options.
ClientAuthenticateWith(s, options) ==
  /\ connected
  /\ ~sess[s].created
  /\ \A t \in Sessions : t < s => sess[t].created
  /\ LET U == clientAuthenticate(State, s, options) IN
     /\ Room(U)
     /\ Becomes(U, "authenticate", s, NoResponse)

\* The application calls logoff on a session it got from authenticate.
Logoff(s) ==
  /\ sess[s].created
  /\ LET U == logoff(State, s, 0) IN
     /\ Room(U)
     /\ Becomes(U, "logoff", s, NoResponse)

\* The application calls Session.connectTree.
ConnectTree(s) ==
  \E t \in Trees :
    /\ sess[s].authenticated
    /\ ~tree[t].created
    /\ \A u \in Trees : u < t => tree[u].created
    /\ LET U == connectTree(State, s, t) IN
       /\ Room(U)
       /\ Becomes(U, "connectTree", t, NoResponse)

\* The application calls connect on a tree it got from connectTree, while
\* the session is authenticated and no disconnect of that tree is suspended.
TreeConnectCall(t) ==
  /\ tree[t].created
  /\ sess[tree[t].session].authenticated
  /\ tree[t].disc.st = "none"
  /\ \A r \in 1 .. Len(requests) :
        (requests[r].owner.k = "treeDisconnect" /\ requests[r].owner.t = t)
          => requests[r].st # "pending"
  /\ LET U == connect(State, t) IN
     /\ Room(U)
     /\ Becomes(U, "connect", t, NoResponse)

\* The application calls disconnect on a tree it got from connectTree.
TreeDisconnectCall(t) ==
  /\ tree[t].created
  /\ LET U == disconnect(State, t, "user") IN
     /\ Room(U)
     /\ Becomes(U, "disconnect", t, NoResponse)

\* A convenience operation of a tree starts: it opens a new file or
\* directory.
OpenHandle(t, kind) ==
  \E h \in Handles :
    /\ tree[t].connected
    /\ ~handle[h].created
    /\ \A g \in Handles : g < h => handle[g].created
    /\ LET U == openHandle(State, t, h, kind) IN
       /\ Room(U)
       /\ Becomes(U, "open", h, NoResponse)

\* The application calls a convenience operation of a tree it got from
\* connectTree.
Operation(t, kind, act) ==
  \E h \in Handles :
    /\ tree[t].created
    /\ ~handle[h].created
    /\ \A g \in Handles : g < h => handle[g].created
    /\ LET U == operation(State, t, h, kind, act) IN
       /\ Room(U)
       /\ Becomes(U, "operation", h, NoResponse)

\* The application calls request on a tree it got from connectTree, once.
TreeRequest(t) ==
  /\ tree[t].created
  /\ \A r \in 1 .. Len(requests) : requests[r].owner.k # "treeRequest"
  /\ LET U == treeRequest(State, t, [type |-> Echo]) IN
     /\ Room(U)
     /\ Becomes(U, "treeRequest", t, NoResponse)

\* A convenience operation closes the file or directory it has opened.
CloseHandle(h) ==
  /\ handle[h].isOpen
  /\ LET U == handleClose(State, h, "user") IN
     /\ Room(U)
     /\ Becomes(U, "closeHandle", h, NoResponse)

\* The transport under a server that may send any response at any time:
\* the application creates and sends requests itself; no session exists.
WireStatuses == {Success, AccessDenied}
WireTypes == {Echo, ChangeNotify}
WireIds == 0 .. (MaxMsgs - 1)

Next ==
  \/ Connect
  \/ ConnectOk
  \/ ConnectFail
  \/ CreateRequest(Echo)
  \/ \E r \in 1 .. Len(requests) : Send(r)
  \/ \E response \in Responses(WireIds, WireTypes, WireStatuses) : OnData(response)
  \/ \E r \in 1 .. Len(requests) : RequestTimeout(r)
  \/ SocketClose
  \/ SocketError
  \/ Close

Spec == Init /\ [][Next]_vars

\* The same transport with the timers of the event loop: a timer that is
\* armed and not cleared fires (setTimeout, Client.ts 227-233).
SpecLive ==
  Init /\ [][Next]_vars /\ \A r \in 1 .. MaxMsgs : WF_vars(RequestTimeout(r))

\* The transport under a server that answers the requests the client has
\* created, sent or not, with any status.
AnsweredIds ==
  (DOMAIN responseCallbackMap) \cup
  {requests[r].messageId : r \in {q \in 1 .. Len(requests) : requests[q].st = "created"}}

NextStatus ==
  \/ Connect
  \/ ConnectOk
  \/ CreateRequest(Echo)
  \/ \E r \in 1 .. Len(requests) : Send(r)
  \/ \E response \in Responses(AnsweredIds, {Echo}, StatusCode) : OnData(response)
  \/ \E r \in 1 .. Len(requests) : RequestTimeout(r)

SpecStatus == Init /\ [][NextStatus]_vars

\* The session layer under a server that answers the requests it was sent.
Answers ==
  Responses(DOMAIN responseCallbackMap, {Echo}, {Success, AccessDenied})

NextSession ==
  \/ Connect
  \/ ConnectOk
  \/ ConnectFail
  \/ \E response \in Answers : OnData(response)
  \/ \E r \in 1 .. Len(requests) : RequestTimeout(r)
  \/ SocketClose
  \/ SocketError
  \/ Close
  \/ \E s \in Sessions : ClientAuthenticate(s)
  \/ \E s \in Sessions : Logoff(s)

SpecSession == Init /\ [][NextSession]_vars

\* The trees and handles of a session that Client.authenticate has returned
\* (Session.ts 66-106: three exchanges, id assigned, authenticated, pushed
\* to Client.sessions), under a server that answers the requests it was
\* sent. The requests of the authentication are not kept in requests.
AuthenticatedSession ==
  [NewSession EXCEPT !._id = "sid1", !.authenticated = TRUE, !.onAuthenticate = FALSE]

InitTree ==
  /\ connected = TRUE
  /\ socket = "open"
  /\ nextMessageId = 3
  /\ responseMap = EmptyMap
  /\ responseCallbackMap = EmptyMap
  /\ requestTimeoutIdMap = EmptyMap
  /\ timers = {}
  /\ requests = <<>>
  /\ written = {}
  /\ sessions = <<1>>
  /\ sess = [s \in Sessions |-> IF s = 1 THEN AuthenticatedSession ELSE NoSession]
  /\ tree = [t \in Trees |-> NoTree]
  /\ handle = [h \in Handles |-> NoHandle]
  /\ closeCalls = [c \in CloseCalls |-> NoCloseCall]
  /\ setting = DefaultSetting
  /\ framer = NoFramer
  /\ wire = NoWire
  /\ sockets = NoSockets
  /\ lastOp = NoOp

NextTree ==
  \/ \E s \in Sessions : ConnectTree(s)
  \/ \E t \in Trees : TreeConnectCall(t)
  \/ \E t \in Trees : TreeDisconnectCall(t)
  \/ \E t \in Trees : \E kind \in {"file", "directory"} : OpenHandle(t, kind)
  \/ \E h \in Handles : CloseHandle(h)
  \/ \E s \in Sessions : Logoff(s)
  \/ \E response \in Answers : OnData(response)
  \/ \E r \in 1 .. Len(requests) : RequestTimeout(r)
  \/ SocketClose

SpecTree == InitTree /\ [][NextTree]_vars

\* The dialects that Session.authenticate offers, and SMB 3.0, from which
\* on the keys are derived.
Dialects == {528, 768}
Smb300 == 768

\* The session that Client.authenticate returns on a server that chose
\* dialect, when NTLM produced a v2 session key or not, and the server
\* advertised Capability.Encryption (part_004 8) or not: the three keys are
\* derived together for SMB 3.x with a v2 session key, and encryption is
\* then enabled if the capability was advertised.
AuthenticateOutcome(dialect, v2SessionKey, capability) ==
  LET keys == dialect >= Smb300 /\ v2SessionKey IN
  [AuthenticatedSession EXCEPT !.dialectRevision = dialect,
                               !.encryptionKey = keys,
                               !.decryptionKey = keys,
                               !.signingKey = keys,
                               !.encryptionEnabled = keys /\ capability]

AuthenticateOutcomes ==
  {AuthenticateOutcome(d, k, c) : d \in Dialects, k \in BOOLEAN, c \in BOOLEAN}

\* The trees of an authenticated session with any of these outcomes, under
\* a server that answers the requests it was sent with any of three
\* statuses, with or without the encrypt-data share flag, in plain frames
\* or Transform frames.
InitCrypt ==
  /\ connected = TRUE
  /\ socket = "open"
  /\ nextMessageId = 3
  /\ responseMap = EmptyMap
  /\ responseCallbackMap = EmptyMap
  /\ requestTimeoutIdMap = EmptyMap
  /\ timers = {}
  /\ requests = <<>>
  /\ written = {}
  /\ sessions = <<1>>
  /\ sess \in [Sessions -> AuthenticateOutcomes \cup {NoSession}]
  /\ sess[1] \in AuthenticateOutcomes
  /\ \A s \in Sessions \ {1} : sess[s] = NoSession
  /\ tree = [t \in Trees |-> NoTree]
  /\ handle = [h \in Handles |-> NoHandle]
  /\ closeCalls = [c \in CloseCalls |-> NoCloseCall]
  /\ setting = DefaultSetting
  /\ framer = NoFramer
  /\ wire = NoWire
  /\ sockets = NoSockets
  /\ lastOp = NoOp

ShareFlagValues == {0, 8}

CryptFrames ==
  Frames(DOMAIN responseCallbackMap, {Success, AccessDenied, SharingViolation},
         ShareFlagValues)

NextCrypt ==
  \/ \E s \in Sessions : ConnectTree(s)
  \/ \E t \in Trees : TreeConnectCall(t)
  \/ \E t \in Trees : TreeDisconnectCall(t)
  \/ \E s \in Sessions : Logoff(s)
  \/ \E frame \in CryptFrames : OnData(frame)
  \/ \E r \in 1 .. Len(requests) : RequestTimeout(r)

SpecCrypt == InitCrypt /\ [][NextCrypt]_vars

\* The framer under every stream of at most MaxFrames well-formed frames
\* with payloads of at most MaxPayload bytes, cut into at most MaxSegments
\* "data" events at any byte. Payload bytes are 0 and 1, the values that
\* also occur in headers.
Bytes == {0, 1}

Payloads == UNION {[1 .. n -> Bytes] : n \in 0 .. MaxPayload}

FrameLists == UNION {[1 .. n -> Payloads] : n \in 1 .. MaxFrames}

InitFramer ==
  /\ connected = TRUE
  /\ socket = "open"
  /\ nextMessageId = 0
  /\ responseMap = EmptyMap
  /\ responseCallbackMap = EmptyMap
  /\ requestTimeoutIdMap = EmptyMap
  /\ timers = {}
  /\ requests = <<>>
  /\ written = {}
  /\ sessions = <<>>
  /\ sess = [s \in Sessions |-> NoSession]
  /\ tree = [t \in Trees |-> NoTree]
  /\ handle = [h \in Handles |-> NoHandle]
  /\ closeCalls = [c \in CloseCalls |-> NoCloseCall]
  /\ setting = DefaultSetting
  /\ \E frames \in FrameLists :
       framer = [NoFramer EXCEPT
                   !.frames = frames,
                   !.stream = Concat([i \in 1 .. Len(frames) |-> Frame(frames[i])])]
  /\ wire = NoWire
  /\ sockets = NoSockets
  /\ lastOp = NoOp

\* Bytes of the stream received so far.
Received == Len(Concat(framer.segments))

\* A "data" event with the next n bytes of the stream.
OnDataBytes(n) ==
  /\ Len(framer.segments) < MaxSegments
  /\ n \in 1 .. (Len(framer.stream) - Received)
  /\ LET buffer == SubSeq(framer.stream, Received + 1, Received + n) IN
     framer' = [onDataBytes(framer, buffer) EXCEPT
                  !.segments = Append(framer.segments, buffer)]
  /\ UNCHANGED <<connected, socket, nextMessageId, responseMap,
                 responseCallbackMap, requestTimeoutIdMap, timers, requests,
                 written, sessions, sess, tree, handle, closeCalls, setting,
                 wire, sockets, lastOp>>

NextFramer == \E n \in 1 .. (4 + MaxPayload) * MaxFrames : OnDataBytes(n)

SpecFramer == InitFramer /\ [][NextFramer]_vars

\* The operations of a connected tree of an authenticated session (part_013
\* 31-78: TreeConnect answered, connected set, pushed to connectedTrees), on
\* a connected client, under a server that answers the requests it was
\* sent. The requests before that are not kept in requests. Of the
\* convenience operations, readFile (a step between open and close) and
\* createDirectory (none) stand for the two shapes.
ConvenienceOperations ==
  {[kind |-> "file", act |-> TRUE], [kind |-> "directory", act |-> FALSE]}

ConnectedTree ==
  [created |-> TRUE, session |-> 1, connected |-> TRUE, connecting |-> FALSE,
   openFiles |-> <<>>, openDirectories |-> <<>>,
   onConnect |-> FALSE, onDisconnect |-> TRUE, disc |-> NoCall]

InitOps ==
  /\ connected = TRUE
  /\ socket = "open"
  /\ nextMessageId = 4
  /\ responseMap = EmptyMap
  /\ responseCallbackMap = EmptyMap
  /\ requestTimeoutIdMap = EmptyMap
  /\ timers = {}
  /\ requests = <<>>
  /\ written = {}
  /\ sessions = <<1>>
  /\ sess = [s \in Sessions |->
              IF s = 1 THEN [AuthenticatedSession EXCEPT !.connectedTrees = <<1>>]
              ELSE NoSession]
  /\ tree = [t \in Trees |-> IF t = 1 THEN ConnectedTree ELSE NoTree]
  /\ handle = [h \in Handles |-> NoHandle]
  /\ closeCalls = [c \in CloseCalls |-> NoCloseCall]
  /\ setting = DefaultSetting
  /\ framer = NoFramer
  /\ wire = NoWire
  /\ sockets = NoSockets
  /\ lastOp = NoOp

NextOps ==
  \/ \E t \in Trees : tree[t].connected /\ TreeDisconnectCall(t)
  \/ \E t \in Trees : TreeRequest(t)
  \/ \E t \in Trees : \E o \in ConvenienceOperations : Operation(t, o.kind, o.act)
  \/ \E response \in Answers : OnData(response)
  \/ \E r \in 1 .. Len(requests) : RequestTimeout(r)

SpecOps == InitOps /\ [][NextOps]_vars

\* Authentication from its first request on, on a connected client, under a
\* server that answers the request it was sent: a Negotiate response names
\* the dialect and the Encryption capability, a SessionSetup response
\* carries a session id and a security buffer.
AuthSessionIds == {"sid1", "sid2"}

AuthStatuses == {Success, MoreProcessingRequired, SharingViolation, AccessDenied}

AuthBuffers ==
  {ChallengeBuffer, [ChallengeBuffer EXCEPT !.extendedSessionSecurity = FALSE],
   NoBuffer}

AuthSettings ==
  {[DefaultSetting EXCEPT !.defaultNtlm = d] : d \in {"", "v1"}}

AuthOptions == [forceNtlmVersion : {"", "v1", "v2"}]

AuthAnswers(r) ==
  IF requests[r].type = Negotiate
  THEN {[NoResponse EXCEPT !.messageId = requests[r].messageId,
                           !.type = Negotiate, !.status = st,
                           !.sessionId = "sid1", !.dialectRevision = d,
                           !.encryptionCapability = cap,
                           !.buffer = ChallengeBuffer] :
          st \in AuthStatuses, d \in Dialects, cap \in BOOLEAN}
  ELSE {[NoResponse EXCEPT !.messageId = requests[r].messageId,
                           !.type = SessionSetup, !.status = st,
                           !.sessionId = sid, !.buffer = b] :
          st \in AuthStatuses, sid \in AuthSessionIds, b \in AuthBuffers}

AuthFrames ==
  UNION {AuthAnswers(r) :
           r \in {q \in 1 .. Len(requests) :
                    Has(responseCallbackMap, requests[q].messageId)}}

InitAuth ==
  /\ connected = TRUE
  /\ socket = "open"
  /\ nextMessageId = 0
  /\ responseMap = EmptyMap
  /\ responseCallbackMap = EmptyMap
  /\ requestTimeoutIdMap = EmptyMap
  /\ timers = {}
  /\ requests = <<>>
  /\ written = {}
  /\ sessions = <<>>
  /\ sess = [s \in Sessions |-> NoSession]
  /\ tree = [t \in Trees |-> NoTree]
  /\ handle = [h \in Handles |-> NoHandle]
  /\ closeCalls = [c \in CloseCalls |-> NoCloseCall]
  /\ setting \in AuthSettings
  /\ framer = NoFramer
  /\ wire = NoWire
  /\ sockets = NoSockets
  /\ lastOp = NoOp

NextAuth ==
  \/ \E s \in Sessions : \E options \in AuthOptions : ClientAuthenticateWith(s, options)
  \/ \E response \in AuthFrames : OnData(response)
  \/ \E r \in 1 .. Len(requests) : RequestTimeout(r)
  \/ SocketClose

SpecAuth == InitAuth /\ [][NextAuth]_vars

\* The application calls authenticate on a session it got from
\* Client.authenticate (Session.ts 66-114), for instance after a logoff.
SessionAuthenticate(s) ==
  /\ sess[s].created
  /\ LET U == authenticate(State, s, NoOptions) IN
     /\ Room(U)
     /\ Becomes(U, "authenticate", s, NoResponse)

\* The framer under streams in which a frame may carry a type byte other
\* than 0x00 (0xFF), which getChunks does not accept.
TypeLists(n) == [1 .. n -> {0, 255}]

TypedFrame(type, payload) == <<type>> \o Tail(Frame(payload))

InitBadFrame ==
  /\ connected = TRUE
  /\ socket = "open"
  /\ nextMessageId = 0
  /\ responseMap = EmptyMap
  /\ responseCallbackMap = EmptyMap
  /\ requestTimeoutIdMap = EmptyMap
  /\ timers = {}
  /\ requests = <<>>
  /\ written = {}
  /\ sessions = <<>>
  /\ sess = [s \in Sessions |-> NoSession]
  /\ tree = [t \in Trees |-> NoTree]
  /\ handle = [h \in Handles |-> NoHandle]
  /\ closeCalls = [c \in CloseCalls |-> NoCloseCall]
  /\ setting = DefaultSetting
  /\ \E frames \in FrameLists : \E types \in TypeLists(Len(frames)) :
       framer = [NoFramer EXCEPT
                   !.frames = frames,
                   !.types = types,
                   !.stream = Concat([i \in 1 .. Len(frames) |->
                                        TypedFrame(types[i], frames[i])])]
  /\ wire = NoWire
  /\ sockets = NoSockets
  /\ lastOp = NoOp

SpecBadFrame == InitBadFrame /\ [][NextFramer]_vars

\* Logoff and authentication of a session that Client.authenticate has
\* returned, in any order, under a server that answers with Success or
\* with an error.
NextReauth ==
  \/ \E s \in Sessions : Logoff(s)
  \/ \E s \in Sessions : SessionAuthenticate(s)
  \/ \E response \in Answers : OnData(response)
  \/ \E r \in 1 .. Len(requests) : RequestTimeout(r)

SpecReauth == InitTree /\ [][NextReauth]_vars

(* ------------------------ overlapping connect() ------------------------ *)

\* A Socket as Client.connect creates it (Client.ts 64-69, 71-84): it is
\* connecting, carries the client's data, error and close listeners, its
\* connect() call is suspended and the connect timer of the call is armed.
NewSocket ==
  [st |-> "connecting", listeners |-> TRUE, call |-> "pending", timer |-> TRUE]

\* Client.destroySocket (Client.ts 355-364) on the Socket that Client.socket
\* refers to at the time of the call: its listeners are removed, it is
\* destroyed and Client.socket is deleted. With Client.socket undefined the
\* call throws a TypeError and changes nothing.
destroyCurrent(K) ==
  IF K.current = 0 THEN K
  ELSE [K EXCEPT !.list[K.current].listeners = FALSE,
                 !.list[K.current].st = "destroyed",
                 !.current = 0]

\* Client.socket as the other actions see it.
SocketOf(K) == IF K.current = 0 THEN "undefined" ELSE K.list[K.current].st

\* What the steps of this section leave alone.
ConnectFrame ==
  UNCHANGED <<nextMessageId, responseMap, responseCallbackMap,
              requestTimeoutIdMap, timers, requests, written, sessions, sess,
              tree, handle, closeCalls, setting, framer, wire, lastOp>>

\* connect() is called, by the application or by authenticate() (Client.ts
\* 346-347), whether or not an earlier call is still suspended: it returns
\* at once when connected, else it makes a new Socket and assigns it to
\* Client.socket and its timer to Client.connectTimeoutId.
ConnectCall ==
  /\ Len(sockets.list) < MaxSockets
  /\ ~connected
  /\ sockets' = [list |-> Append(sockets.list, NewSocket),
                 current |-> Len(sockets.list) + 1,
                 connectTimeoutId |-> Len(sockets.list) + 1]
  /\ socket' = "connecting"
  /\ UNCHANGED connected
  /\ ConnectFrame

\* The "connect" event of Socket i: the promise of its call is resolved
\* and the call goes on (Client.ts 87-89): clearTimeout of the timer in
\* Client.connectTimeoutId, connected = true. After the timer of the call
\* has rejected the promise the event changes nothing but the socket.
SocketConnects(i) ==
  /\ sockets.list[i].st = "connecting"
  /\ LET K == [sockets EXCEPT !.list[i].st = "open"] IN
     IF sockets.list[i].call = "pending"
     THEN /\ sockets' = [K EXCEPT !.list[i].call = "returned",
                                  !.list[K.connectTimeoutId].timer = FALSE]
          /\ connected' = TRUE
          /\ socket' = SocketOf(K)
     ELSE /\ sockets' = K
          /\ UNCHANGED connected
          /\ socket' = SocketOf(K)
  /\ ConnectFrame

\* The "error" event of Socket i, followed by its "close" event: onClose
\* runs if the socket still has the client's listeners, and a call that is
\* suspended on the socket goes to its catch block (Client.ts 82-84, 90-93),
\* which destroys whatever Client.socket is then.
SocketFails(i) ==
  /\ sockets.list[i].st \in {"connecting", "open"}
  /\ LET K == [sockets EXCEPT !.list[i].st = "closed"] IN
     /\ sockets' = IF sockets.list[i].call = "pending"
                   THEN destroyCurrent([K EXCEPT !.list[i].call = "threw"])
                   ELSE K
     /\ connected' = IF sockets.list[i].listeners THEN FALSE ELSE connected
     /\ socket' = SocketOf(sockets')
  /\ ConnectFrame

\* The connect timer of call i fires (Client.ts 72-74): a suspended call
\* goes to its catch block; Socket i itself is not touched unless it is
\* Client.socket.
ConnectTimesOut(i) ==
  /\ sockets.list[i].timer
  /\ LET K == [sockets EXCEPT !.list[i].timer = FALSE] IN
     sockets' = IF sockets.list[i].call = "pending"
                THEN destroyCurrent([K EXCEPT !.list[i].call = "threw"])
                ELSE K
  /\ socket' = SocketOf(sockets')
  /\ UNCHANGED connected
  /\ ConnectFrame

\* The "close" event of an established Socket i.
SocketCloses(i) ==
  /\ sockets.list[i].st = "open"
  /\ sockets' = [sockets EXCEPT !.list[i].st = "closed"]
  /\ connected' = IF sockets.list[i].listeners THEN FALSE ELSE connected
  /\ socket' = SocketOf(sockets')
  /\ ConnectFrame

\* close() on a client without sessions (Client.ts 372-380): destroySocket
\* and connected = false; with Client.socket undefined destroySocket throws
\* and connected stays as it is.
CloseCall ==
  /\ connected
  /\ sockets' = destroyCurrent(sockets)
  /\ connected' = (sockets.current = 0)
  /\ socket' = "undefined"
  /\ ConnectFrame

NextConnect ==
  \/ ConnectCall
  \/ \E i \in 1 .. Len(sockets.list) : SocketConnects(i)
  \/ \E i \in 1 .. Len(sockets.list) : SocketFails(i)
  \/ \E i \in 1 .. Len(sockets.list) : ConnectTimesOut(i)
  \/ \E i \in 1 .. Len(sockets.list) : SocketCloses(i)
  \/ CloseCall

SpecConnect == Init /\ [][NextConnect]_vars

(* --------------------------- Transform header -------------------------- *)

\* buffer.writeUInt32LE and buffer.writeUInt16LE: the bytes of n, least
\* significant first.
writeUInt32LE(n) ==
  <<n % 256, (n \div 256) % 256, (n \div 65536) % 256, (n \div 16777216) % 256>>

writeUInt16LE(n) == <<n % 256, (n \div 256) % 256>>

\* source.copy(buffer, offset) into a zero-filled field of width bytes: the
\* bytes of source that fit, the rest of the field stays zero.
Copy(source, width) ==
  [i \in 1 .. width |-> IF i <= Len(source) THEN source[i] ELSE 0]

\* Buffer.from(sessionId, 'hex'): the 8 bytes a session id string stands for.
FromHex(sessionId) ==
  CASE sessionId = "sid1" -> <<97, 0, 0, 104, 0, 12, 0, 0>>
    [] sessionId = "sid2" -> <<1, 2, 3, 4, 5, 6, 7, 200>>
    [] OTHER -> <<>>

\* TransformHeaderUtil.PROTOCOL_ID and FLAG_ENCRYPTED (TransformHeader.ts 19-21).
PROTOCOL_ID == <<253, 83, 77, 66>>
FLAG_ENCRYPTED == 1

\* TransformHeaderUtil.create (TransformHeader.ts 115-125); nonce stands for
\* the result of crypto.randomBytes(16).
create(sessionId, messageSize, nonce) ==
  [protocolId |-> PROTOCOL_ID, signature |-> [i \in 1 .. 16 |-> 0],
   nonce |-> nonce, originalMessageSize |-> messageSize, reserved |-> 0,
   flags |-> FLAG_ENCRYPTED, sessionId |-> sessionId]

\* TransformHeaderUtil.serialize (TransformHeader.ts 26-60).
serialize(header) ==
  Copy(header.protocolId, 4) \o Copy(header.signature, 16)
    \o Copy(header.nonce, 16)
    \o writeUInt32LE(header.originalMessageSize)
    \o writeUInt16LE(header.reserved) \o writeUInt16LE(header.flags)
    \o Copy(FromHex(header.sessionId), 8)

\* TransformHeaderUtil.getAAD and getCCMNonce (TransformHeader.ts 131-142).
getAAD(headerBuffer) == SubSeq(headerBuffer, 21, 52)

getCCMNonce(nonce) == SubSeq(nonce, 1, 11)

\* encryptAES128CCM as Client.encryptMessage uses it: a ciphertext of the
\* length of the plaintext, made byte by byte from key, nonce and position,
\* and a 16-byte tag that depends on the key, the nonce, the additional
\* data and the plaintext.
encryptAES128CCM(key, nonce, plaintext, aad) ==
  LET ends == IF plaintext = <<>> THEN 0
              ELSE plaintext[1] + plaintext[Len(plaintext)]
  IN [ciphertext |->
        [i \in 1 .. Len(plaintext) |->
           (plaintext[i] + key + nonce[((i - 1) % Len(nonce)) + 1] + i) % 256],
      authTag |->
        [j \in 1 .. 16 |->
           (key + j + nonce[((j - 1) % Len(nonce)) + 1] + aad[j] + aad[j + 16]
              + Len(plaintext) + ends) % 256]]

\* Mutant of encryptMessage: the tag follows the ciphertext and the
\* signature field stays zero.
encryptMessage_tagAppended(message, sessionId, key, random) ==
  LET transformHeader == create(sessionId, Len(message), random)
      transformHeaderBuffer == serialize(transformHeader)
      aad == getAAD(transformHeaderBuffer)
      nonce == getCCMNonce(transformHeader.nonce)
      enc == encryptAES128CCM(key, nonce, message, aad)
  IN transformHeaderBuffer \o enc.ciphertext \o enc.authTag

\* Client.encryptMessage (Client.ts 171-202) for a session that has its
\* keys: the serialized header with the tag copied to offset 4, then the
\* ciphertext.
encryptMessage(message, sessionId, key, random) ==
  LET transformHeader == create(sessionId, Len(message), random)
      transformHeaderBuffer == serialize(transformHeader)
      aad == getAAD(transformHeaderBuffer)
      nonce == getCCMNonce(transformHeader.nonce)
      enc == encryptAES128CCM(key, nonce, message, aad)
  IN SubSeq(transformHeaderBuffer, 1, 4) \o enc.authTag
       \o SubSeq(transformHeaderBuffer, 21, 52) \o enc.ciphertext

\* The messages, nonces, keys and session ids encryptMessage is tried on:
\* messages of the lengths of PlainLengths, of which 132 is the length of
\* the documented example and MaxPlain needs two bytes of the size field.
PlainLengths == {0, 1, 2, 132, MaxPlain}

PlainSeeds == {0, 7, 200}

Nonces == {[i \in 1 .. 16 |-> i - 1], [i \in 1 .. 16 |-> (251 + 3 * i) % 256]}

Keys == {5, 77}

InitTransform ==
  /\ connected = TRUE
  /\ socket = "open"
  /\ nextMessageId = 0
  /\ responseMap = EmptyMap
  /\ responseCallbackMap = EmptyMap
  /\ requestTimeoutIdMap = EmptyMap
  /\ timers = {}
  /\ requests = <<>>
  /\ written = {}
  /\ sessions = <<>>
  /\ sess = [s \in Sessions |-> NoSession]
  /\ tree = [t \in Trees |-> NoTree]
  /\ handle = [h \in Handles |-> NoHandle]
  /\ closeCalls = [c \in CloseCalls |-> NoCloseCall]
  /\ setting = DefaultSetting
  /\ framer = NoFramer
  /\ \E len \in PlainLengths, seed \in PlainSeeds, random \in Nonces,
        key \in Keys, sessionId \in {"sid1", "sid2"} :
       wire = [NoWire EXCEPT
                 !.message = [i \in 1 .. len |-> (seed + 3 * i) % 256],
                 !.sessionId = sessionId, !.nonce = random, !.key = key]
  /\ sockets = NoSockets
  /\ lastOp = NoOp

\* Client.encryptMessage is called with the message.
EncryptMessage ==
  /\ ~wire.returned
  /\ wire' = [wire EXCEPT
                !.out = encryptMessage(wire.message, wire.sessionId,
                                       wire.key, wire.nonce),
                !.returned = TRUE]
  /\ UNCHANGED <<connected, socket, nextMessageId, responseMap,
                 responseCallbackMap, requestTimeoutIdMap, timers, requests,
                 written, sessions, sess, tree, handle, closeCalls, setting,
                 framer, sockets, lastOp>>

NextTransform == EncryptMessage

SpecTransform == InitTransform /\ [][NextTransform]_vars

(* ------------------------------ claims --------------------------------- *)

IdOf(r) == requests[r].messageId
Created == 1 .. Len(requests)
Tolerated == {"Success", "Pending", "MoreProcessingRequired", "FileClosed"}

\* C1: the message ids of the requests created on one client start at 0,
\* are strictly increasing in creation order, and none is assigned twice;
\* every id written to the socket is the id of one created request.
C1_MessageIdsIncrease ==
  /\ Len(requests) > 0 => requests[1].messageId = 0
  /\ \A i, j \in Created : i < j => IdOf(i) < IdOf(j)
  /\ \A w \in written : Cardinality({r \in Created : IdOf(r) = w.messageId}) = 1

C1_Witness ==
  /\ Len(requests) >= 2
  /\ Cardinality(written) >= 2

\* C2: with several requests in flight and the responses arriving in any
\* order, a send() is settled only by a response whose message id is the id
\* of its own request, and a response is handed to no other request.
C2_MatchedById ==
  /\ \A r \in Created :
       requests[r].resp # NoResponse => requests[r].resp.messageId = IdOf(r)
  /\ (lastOp.op = "onData" /\ lastOp.invoked # 0)
       => IdOf(lastOp.invoked) = lastOp.resp.messageId

\* Two requests in flight at once; the response to the second arrives first.
C2_Witness ==
  /\ Len(requests) >= 2
  /\ lastOp.op = "onData"
  /\ lastOp.invoked = 2
  /\ requests[2].st = "resolved"
  /\ requests[1].st = "pending"
  /\ Has(responseCallbackMap, IdOf(1))

\* C3: a registered waiter and a buffered response never exist for the same
\* message id, and a request in flight (sent, its promise not settled) has
\* exactly one of the two.
C3_WaiterXorStored ==
  /\ \A id \in DOMAIN responseMap : ~Has(responseCallbackMap, id)
  /\ \A r \in Created :
       requests[r].st = "pending" =>
         \/ Has(responseCallbackMap, IdOf(r)) /\ ~Has(responseMap, IdOf(r))
         \/ ~Has(responseCallbackMap, IdOf(r)) /\ Has(responseMap, IdOf(r))

C3_Witness ==
  /\ \E r \in Created : requests[r].st = "pending" /\ Has(responseCallbackMap, IdOf(r))
  /\ DOMAIN responseMap # {}

\* C4 as stated: after the timeout of a request has fired, a matching
\* response that arrives does not invoke the request's waiter and is
\* buffered.
C4_LateResponseIsBuffered ==
  \A r \in Created :
    (requests[r].err = "request_timeout" /\ lastOp.op = "onData"
       /\ lastOp.resp.messageId = IdOf(r))
    => /\ requests[r].st = "rejected"
       /\ ~requests[r].late
       /\ lastOp.invoked = 0
       /\ lastOp.buffered
       /\ Has(responseMap, IdOf(r))

\* C4 as amended: a request whose timeout fired stays rejected with
\* request_timeout and is never settled by a response; its waiter stays
\* registered until a matching response arrives, which is handed to that
\* waiter without effect and is not buffered.
C4_LateResponseHasNoEffect ==
  \A r \in Created :
    requests[r].err = "request_timeout"
    => /\ requests[r].st = "rejected"
       /\ requests[r].resp = NoResponse
       /\ \/ /\ Has(responseCallbackMap, IdOf(r))
             /\ responseCallbackMap[IdOf(r)] = r
             /\ ~requests[r].late
          \/ /\ requests[r].late
             /\ ~Has(responseCallbackMap, IdOf(r)) \/ responseCallbackMap[IdOf(r)] # r
       /\ (lastOp.op = "onData" /\ lastOp.invoked = r)
            => (~lastOp.buffered /\ ~Has(responseMap, IdOf(r)))

C4_Witness ==
  \E r \in Created :
    /\ requests[r].err = "request_timeout"
    /\ requests[r].late
    /\ lastOp.op = "onData"
    /\ lastOp.invoked = r

\* C5: send() resolves with the response when its status is Success,
\* Pending, MoreProcessingRequired or FileClosed, and rejects with the
\* response itself for every other status.
C5_StatusDecides ==
  \A r \in Created :
    /\ requests[r].st = "resolved" => requests[r].resp.status \in Tolerated
    /\ (requests[r].st = "rejected" /\ requests[r].err = "response")
         => (requests[r].resp # NoResponse /\ requests[r].resp.status \notin Tolerated)
    /\ requests[r].resp # NoResponse
         => requests[r].st = (IF requests[r].resp.status \in Tolerated
                              THEN "resolved" ELSE "rejected")
    /\ (lastOp.op = "onData" /\ lastOp.invoked = r /\ ~requests[r].late)
         => requests[r].resp = lastOp.resp

C5_Witness ==
  \E r, q \in Created :
    /\ requests[r].st = "resolved" /\ requests[r].resp.status = FileClosed
    /\ requests[q].st = "rejected" /\ requests[q].resp.status = SharingViolation

\* C6: send() on a client that is not connected rejects with not_connected
\* and changes nothing else: nothing is written, no waiter is registered,
\* no timer is started.
C6_NotConnected ==
  [][\A r \in Created :
       (requests[r].st = "created" /\ requests'[r].st # "created" /\ ~connected)
       => /\ requests'[r].st = "rejected"
          /\ requests'[r].err = "not_connected"
          /\ requests'[r].resp = NoResponse
          /\ UNCHANGED <<connected, socket, nextMessageId, responseMap,
                         responseCallbackMap, requestTimeoutIdMap, timers,
                         written, sessions, sess, closeCalls>>]_vars

C6_Witness ==
  \E r \in Created :
    /\ requests[r].err = "not_connected"
    /\ lastOp.op = "send"
    /\ ~connected

\* C7 as stated: a response that arrives while no waiter is registered
\* under its message id is buffered, and it is that response which settles
\* the first subsequent send() for the id: a buffered response stays
\* buffered until that send() takes it.
C7_BufferedUntilSend ==
  [][/\ (lastOp'.op = "onData" /\ ~Has(responseCallbackMap, lastOp'.resp.messageId))
          => /\ Has(responseMap', lastOp'.resp.messageId)
             /\ responseMap'[lastOp'.resp.messageId] = lastOp'.resp
     /\ \A id \in DOMAIN responseMap :
          \/ Has(responseMap', id) /\ responseMap'[id] = responseMap[id]
          \/ \E r \in Created :
               /\ IdOf(r) = id
               /\ requests[r].st = "created"
               /\ requests'[r].st \in {"resolved", "rejected"}
               /\ requests'[r].resp = responseMap[id]
               /\ ~Has(responseMap', id)]_vars

\* C7 as amended: a response that arrives while no waiter is registered
\* under its message id is buffered under that id, where it replaces a
\* response buffered earlier under the same id; a send() for an id that has
\* a buffered response settles at once with the response buffered last and
\* removes it; a buffered response leaves the buffer in no other way.
C7_BufferedResponse ==
  [][/\ (lastOp'.op = "onData" /\ ~Has(responseCallbackMap, lastOp'.resp.messageId))
          => /\ Has(responseMap', lastOp'.resp.messageId)
             /\ responseMap'[lastOp'.resp.messageId] = lastOp'.resp
     /\ \A r \in Created :
          (requests[r].st = "created" /\ requests'[r].st # "created"
             /\ connected /\ Has(responseMap, IdOf(r)))
          => /\ requests'[r].st \in {"resolved", "rejected"}
             /\ requests'[r].resp = responseMap[IdOf(r)]
             /\ ~Has(responseMap', IdOf(r))
     /\ \A id \in DOMAIN responseMap :
          \/ Has(responseMap', id) /\ responseMap'[id] = responseMap[id]
          \/ /\ lastOp'.op = "onData"
             /\ lastOp'.resp.messageId = id
             /\ responseMap'[id] = lastOp'.resp
          \/ \E r \in Created :
               /\ IdOf(r) = id
               /\ requests[r].st = "created"
               /\ requests'[r].resp = responseMap[id]
               /\ ~Has(responseMap', id)]_vars

\* A send() that was settled at once by the response buffered under its id.
C7_Witness ==
  /\ lastOp.op = "send"
  /\ lastOp.invoked = 1
  /\ requests[1].st = "resolved"
  /\ requests[1].resp.messageId = IdOf(1)
  /\ responseMap = EmptyMap

\* C8 as stated: an inbound ChangeNotify response with status Success is
\* emitted as a changeNotify event and is neither handed to a waiter nor
\* buffered under its message id.
C8_ChangeNotifyOnlyEmitted ==
  (lastOp.op = "onData" /\ lastOp.resp.type = ChangeNotify
     /\ lastOp.resp.status = Success)
  => /\ lastOp.emitted
     /\ lastOp.invoked = 0
     /\ ~lastOp.buffered
     /\ ~Has(responseMap, lastOp.resp.messageId)

\* C9 as stated: when close() has returned, no send() is still pending and
\* no waiter is still registered.
C9_CloseRejectsInFlight ==
  "close" \in lastOp.done
  => /\ \A r \in Created : requests[r].st # "pending"
     /\ DOMAIN responseCallbackMap = {}

\* C10 as stated: when close() has returned, the client is disconnected and
\* no session of the client is authenticated any more.
C10_CloseLogsOffSessions ==
  "close" \in lastOp.done
  => /\ ~connected
     /\ \A s \in Sessions : ~sess[s].authenticated

\* The requests that the step creates.
NewRequests == (Len(requests) + 1) .. Len(requests')

\* C11 as stated: when logoff() issues the LogOff request, every tree that
\* was in the session's list of connected trees is not connected; "logoff"
\* is emitted only when the LogOff request has been resolved; and when
\* logoff() has returned, no tree of the session is connected.
C11_LogoffDisconnectsTrees ==
  [][/\ \A r \in NewRequests :
          requests'[r].owner.k = "logoff"
          => \A t \in requests'[r].owner.was : ~tree'[t].connected
     /\ \A s \in Sessions :
          (sess[s].onLogoff /\ ~sess'[s].onLogoff)
          => \E r \in 1 .. Len(requests') :
               /\ requests'[r].owner.k = "logoff"
               /\ requests'[r].owner.s = s
               /\ requests'[r].st = "resolved"
     /\ \A s \in lastOp'.loggedOff :
          \A t \in Trees :
            (tree'[t].created /\ tree'[t].session = s) => ~tree'[t].connected]_vars

ProgramState ==
  <<connected, socket, nextMessageId, responseMap, responseCallbackMap,
    requestTimeoutIdMap, timers, requests, written, sessions, sess, tree,
    handle, closeCalls>>

\* C13: logoff() on a session that is not authenticated and disconnect() on
\* a tree that is not connected send no request, emit no event and change
\* nothing, so that a repeated teardown has no effect beyond the first.
C13_TeardownIdempotent ==
  [][/\ \A s \in Sessions :
          (~sess[s].authenticated /\ Logoff(s))
          => (UNCHANGED ProgramState /\ s \in lastOp'.loggedOff)
     /\ \A t \in Trees :
          (~tree[t].connected /\ TreeDisconnectCall(t))
          => (UNCHANGED ProgramState /\ \E d \in lastOp'.disconnected : d.t = t)]_vars

\* logoff() has been called again on a session whose logoff had completed,
\* with a tree that had been disconnected by it.
C13_Witness ==
  \E s \in lastOp.loggedOff :
    /\ lastOp.op = ""
    /\ ~sess[s].authenticated
    /\ \E r \in Created :
         /\ requests[r].owner.k = "logoff"
         /\ requests[r].owner.s = s
         /\ requests[r].owner.was # {}
         /\ requests[r].st = "resolved"

\* The TreeConnect requests of tree t that have not been settled.
PendingTreeConnects(t) ==
  {r \in Created : /\ requests[r].type = TreeConnect
                   /\ requests[r].owner.k \in {"treeConnect", "treeConnectRetry"}
                   /\ requests[r].owner.t = t
                   /\ requests[r].st = "pending"}

\* C14: connect() on a tree that is connected or connecting makes no
\* request and changes nothing, and no tree ever has more than one
\* TreeConnect exchange in progress.
C14_OneTreeConnect ==
  [][\A t \in Trees :
       /\ ((tree[t].connected \/ tree[t].connecting) /\ TreeConnectCall(t))
          => UNCHANGED ProgramState
       /\ Cardinality(PendingTreeConnects(t)') <= 1]_vars

\* connect() has been called on a tree whose TreeConnect was in flight, and
\* has returned.
C14_Witness ==
  /\ lastOp.op = ""
  /\ "connect" \in lastOp.done
  /\ \E t \in Trees : tree[t].connecting /\ PendingTreeConnects(t) # {}

\* The step settles request r, which was awaiting its response.
Settles(r, st) == requests[r].st = "pending" /\ requests'[r].st = st

\* The step rejects the first TreeConnect of a connect() call on tree t with
\* ACCESS_DENIED while the session holds its keys and does not encrypt.
DeniedWithKeys(r) ==
  LET s == tree[requests[r].owner.t].session IN
  /\ requests[r].owner.k = "treeConnect"
  /\ Settles(r, "rejected")
  /\ requests'[r].err = "response"
  /\ requests'[r].resp.status = AccessDenied
  /\ sess[s].encryptionKey /\ sess[s].decryptionKey
  /\ ~sess[s].encryptionEnabled

Registered(s) == find(State, sess[s]._id) = s

NewTreeConnects == {q \in NewRequests : requests'[q].type = TreeConnect}

\* C16: a step creates at most one TreeConnect; the TreeConnect that follows
\* the first one of a connect() call is created only when that first one is
\* rejected with ACCESS_DENIED while the keys are present and encryption is
\* off, and none follows the second; every other rejection of the first
\* TreeConnect, and every rejection of the second, is thrown by connect() as
\* it is, with the status of the response, and the tree is not connected.
C16_OneRetryOnlyWhenDenied ==
  [][/\ Cardinality(NewTreeConnects) <= 1
     /\ \A q \in NewTreeConnects :
          \/ /\ requests'[q].owner.k = "treeConnect"
             /\ \A r \in Created : requests'[r].st = requests[r].st
          \/ /\ requests'[q].owner.k = "treeConnectRetry"
             /\ \E r \in Created : /\ DeniedWithKeys(r)
                                   /\ requests[r].owner.t = requests'[q].owner.t
     /\ \A r \in Created :
          (/\ requests[r].owner.k \in {"treeConnect", "treeConnectRetry"}
           /\ Settles(r, "rejected")
           /\ ~DeniedWithKeys(r))
          => /\ NewTreeConnects = {}
             /\ lastOp'.thrown = {[t |-> requests[r].owner.t,
                                   err |-> requests'[r].err,
                                   status |-> IF requests'[r].err = "response"
                                              THEN lastOp'.resp.status ELSE ""]}
             /\ ~tree'[requests[r].owner.t].connected]_vars

\* The retry of a TreeConnect has been rejected by a response and connect()
\* has thrown.
C16_Witness ==
  \E r \in Created :
    /\ requests[r].owner.k = "treeConnectRetry"
    /\ requests[r].st = "rejected"
    /\ requests[r].err = "response"
    /\ lastOp.op = "onData"
    /\ lastOp.resp.messageId = requests[r].messageId
    /\ lastOp.thrown # {}
    /\ ~tree[requests[r].owner.t].connected

\* The step in which connect() returned after the TreeConnect request r had
\* succeeded on a share with the encrypt-data flag.
ConnectedEncryptShare(r) ==
  /\ lastOp.op = "onData"
  /\ lastOp.invoked = r
  /\ requests[r].owner.k \in {"treeConnect", "treeConnectRetry"}
  /\ requests[r].st = "resolved"
  /\ shareRequiresEncryption(requests[r].resp.shareFlags)

\* C17: when connect() has succeeded on a share whose flags carry
\* the encrypt-data bit, encryptionEnabled is true on the session.
C17_EncryptShareEnables ==
  \A r \in Created :
    ConnectedEncryptShare(r)
    => sess[tree[requests[r].owner.t].session].encryptionEnabled

SessionOf(r) ==
  IF requests[r].owner.k = "logoff" THEN requests[r].owner.s
  ELSE tree[requests[r].owner.t].session

\* The requests that the step writes to the socket.
NewlyWritten ==
  {r \in 1 .. Len(requests') :
     \E w \in written' \ written : w.messageId = requests'[r].messageId}

TamperedFrame ==
  /\ lastOp.op = "onData"
  /\ lastOp.resp.transform
  /\ ~lastOp.resp.intact

\* C20: a Transform frame whose tag does not verify is handed to no waiter
\* and is not stored in the response buffer, and an error comes of it: an
\* operation fails or throws, or the request it answers is rejected.
C20_TamperedFrameDiscardedAndSurfaced ==
  TamperedFrame
  => /\ lastOp.invoked = 0
     /\ ~lastOp.buffered
     /\ \/ lastOp.failed # {}
        \/ lastOp.thrown # {}
        \/ \E r \in Created : /\ requests[r].messageId = lastOp.resp.messageId
                              /\ requests[r].st = "rejected"

\* The requests that authenticate of session s has made, in the order of
\* their creation.
AuthKinds == {"negotiate", "setup1", "setup2"}

AuthRequests(s) ==
  SelectSeq([r \in 1 .. Len(requests) |-> r],
            LAMBDA r : /\ requests[r].owner.k \in AuthKinds
                       /\ requests[r].owner.s = s)

\* What distinguishes the three requests of authenticate on the wire.
AuthSteps ==
  <<[type |-> Negotiate, ntlm |-> 0],
    [type |-> SessionSetup, ntlm |-> 1],
    [type |-> SessionSetup, ntlm |-> 3]>>

AuthFailure(s) ==
  LET a == AuthRequests(s)
      r == a[Len(a)]
  IN IF Len(a) = 0 THEN {}
     ELSE IF requests[r].st = "rejected"
     THEN IF requests[r].err = "response"
          THEN IF requests[r].resp.status = SharingViolation
               THEN {[s |-> s, err |-> "sharing_violation_message", status |-> ""]}
               ELSE {[s |-> s, err |-> "response", status |-> requests[r].resp.status]}
          ELSE {[s |-> s, err |-> requests[r].err, status |-> ""]}
     ELSE IF /\ Len(a) = 2
             /\ requests[r].st = "resolved"
             /\ ~requests[r].resp.buffer.wellFormed
     THEN {[s |-> s, err |-> "ntlmssp_header_not_found", status |-> ""]}
     ELSE {}

\* C22: in the step in which a request of authenticate is rejected, or its
\* first SessionSetup response turns out malformed, authenticate throws to
\* its caller: the readable sharing-violation error for a response with
\* status SharingViolation, and otherwise the very error (the response, the
\* timeout error, the decoding error); and from then on the session is not
\* authenticated, has emitted no "authenticate" and is not in the client's
\* session list.
C22_FailureReachesCaller ==
  [][\A s \in Sessions :
       /\ (AuthFailure(s)' # {} /\ AuthFailure(s) = {})
            => /\ lastOp'.authThrown = AuthFailure(s)'
               /\ "authenticate" \notin lastOp'.done
       /\ AuthFailure(s)' # {}
            => /\ ~sess'[s].authenticated
               /\ \A i \in 1 .. Len(sessions') : sessions'[i] # s
       /\ (\E e \in lastOp'.authThrown : e.s = s) => AuthFailure(s)' # {}]_vars

\* authenticate has thrown the readable error after a SharingViolation
\* response to its Type 3 SessionSetup.
C22_Witness ==
  \E s \in Sessions :
    /\ Len(AuthRequests(s)) = 3
    /\ lastOp.authThrown = {[s |-> s, err |-> "sharing_violation_message", status |-> ""]}
    /\ lastOp.resp.status = SharingViolation
    /\ ~sess[s].authenticated
    /\ sessions = <<>>

\* The sessions whose authenticate has completed in the last macrotask.
AuthCompleted ==
  {s \in Sessions : /\ Len(AuthRequests(s)) = 3
                    /\ sess[s].authenticated
                    /\ lastOp.op = "onData"
                    /\ "authenticate" \in lastOp.done}

\* C23: when authenticate completes after a Negotiate response with a
\* dialect of at least 0x0300 and a Type 3 message built with NTLMv2, the
\* session holds the encryption, decryption and signing keys, and
\* encryptionEnabled is set if the Negotiate response advertised the
\* Encryption capability.
C23_KeysDerivedOnCompletion ==
  \A s \in AuthCompleted :
    LET a == AuthRequests(s) IN
    (/\ requests[a[1]].resp.dialectRevision >= Smb300
     /\ requests[a[3]].body.version = "v2")
    => /\ sess[s].encryptionKey
       /\ sess[s].decryptionKey
       /\ sess[s].signingKey
       /\ requests[a[1]].resp.encryptionCapability => sess[s].encryptionEnabled

\* C24: the Type 3 message is built with NTLMv1 when v1 is forced, with
\* NTLMv2 when v2 is forced, and otherwise with NTLMv2 if the challenge of
\* the server has the ExtendedSessionSecurity flag and with NTLMv1 if not.
C24_VersionFollowsForceOrChallenge ==
  \A s \in Sessions :
    LET a == AuthRequests(s) IN
    Len(a) = 3
    => requests[a[3]].body.version =
         IF requests[a[3]].owner.forceNtlmVersion # ""
         THEN requests[a[3]].owner.forceNtlmVersion
         ELSE IF requests[a[2]].resp.buffer.extendedSessionSecurity
              THEN "v2" ELSE "v1"

\* The short host name: the host name up to its first dot.
ShortName(hostname) ==
  CASE hostname = "laptop.example.org" -> "laptop"
    [] OTHER -> hostname

\* C25: the workstation name in the Type 1 and Type 3 messages is the short
\* host name of the machine the client runs on, in upper case, and not the
\* name of the server.
C25_WorkstationIsClientName ==
  \A r \in 1 .. Len(requests) :
    requests[r].body.ntlm \in {1, 3}
    => /\ requests[r].body.workstation = ToUpperCase(ShortName(setting.osHostname))
       /\ requests[r].body.workstation # ToUpperCase(setting.host)

\* C26: a call of Tree.request or of a convenience operation on a tree that
\* is not connected throws in the macrotask of the call, and no request is
\* made in it.
C26_UnconnectedTreeFails ==
  [][\A c \in lastOp'.ops :
       (c.outcome = "called" /\ ~c.connected)
       => /\ NewRequests = {}
          /\ [c EXCEPT !.outcome = "thrown"] \in lastOp'.ops]_vars

\* C27: when a convenience operation returns or throws, the handle it
\* made is not open.
C27_OperationClosesHandle ==
  \A c \in lastOp.ops :
    (c.op = "operation" /\ c.outcome \in {"returned", "thrown"})
    => ~handle[c.h].isOpen

\* The number of frames of the stream that lie wholly within its first n
\* bytes, and the number of bytes they take.
RECURSIVE CompleteFrames(_, _)
CompleteFrames(frames, n) ==
  IF frames = <<>> \/ n < 4 + Len(Head(frames)) THEN 0
  ELSE 1 + CompleteFrames(Tail(frames), n - (4 + Len(Head(frames))))

FramedLength(frames) == Len(Concat([i \in 1 .. Len(frames) |-> Frame(frames[i])]))

\* C28: after any number of "data" events that together carry a prefix of a
\* stream of well-formed frames, the chunks handed on are exactly the
\* payloads of the frames that are complete in that prefix, in order and
\* once each, nothing was thrown, and the bytes of the prefix after the last
\* complete frame are kept as responseRestChunk; so when the whole stream
\* has arrived the chunks are the frames and nothing is left over.
C28_FramesSurviveSegmentation ==
  LET k == CompleteFrames(framer.frames, Received)
      done == FramedLength(SubSeq(framer.frames, 1, k))
  IN /\ ~framer.thrown
     /\ framer.chunks = SubSeq(framer.frames, 1, k)
     /\ framer.responseRestChunk = SubSeq(framer.stream, done + 1, Received)

\* Two frames have arrived whole in three segments, the first of which ended
\* inside the header of the first frame and the second inside the payload
\* of the second.
C28_Witness ==
  /\ Len(framer.frames) = 2
  /\ Len(framer.segments) = 3
  /\ Len(framer.segments[1]) < 4
  /\ Len(framer.segments[1]) + Len(framer.segments[2]) > 8 + Len(framer.frames[1])
  /\ Received = Len(framer.stream)
  /\ framer.chunks = framer.frames
  /\ framer.responseRestChunk = <<>>

\* The requests that were settled by their response: the response came
\* before the timeout.
Answered ==
  {r \in Created : \/ requests[r].st = "resolved"
                   \/ (requests[r].st = "rejected" /\ requests[r].err = "response")}

\* C29: a request that was settled by its response has no timer armed and no
\* entry in the timeout table, so its timer cannot fire.
C29_AnsweredRequestHasNoTimer ==
  \A r \in Answered :
    /\ r \notin timers
    /\ ~Has(requestTimeoutIdMap, IdOf(r))

\* The requests that send() was called with in the step: those of a
\* request() made in it, and the request of a send() by the application.
SentNow ==
  {r \in 1 .. Len(requests') :
     \/ r \in NewRequests
     \/ (requests[r].st = "created" /\ requests'[r].st # "created")}

\* The message ids whose waiter or stored response differs after the step.
TableChanges ==
  {m \in DOMAIN responseCallbackMap \cup DOMAIN responseCallbackMap' :
     \/ Has(responseCallbackMap, m) # Has(responseCallbackMap', m)
     \/ (Has(responseCallbackMap, m) /\ responseCallbackMap[m] # responseCallbackMap'[m])}
  \cup
  {m \in DOMAIN responseMap \cup DOMAIN responseMap' :
     \/ Has(responseMap, m) # Has(responseMap', m)
     \/ (Has(responseMap, m) /\ responseMap[m] # responseMap'[m])}

\* C30: a step changes the waiter or the stored response of a message id
\* only if it sends a request with that id or dispatches an inbound
\* response with that id; connect, close, the socket's close and error and
\* the request timeout leave both tables as they are.
C30_TableChangedBySendAndDispatchOnly ==
  [][\A m \in TableChanges :
       \/ \E r \in SentNow : requests'[r].messageId = m
       \/ (lastOp'.op = "onData" /\ lastOp'.resp.messageId = m)]_vars

\* The socket has closed, or close() has run, while a waiter was registered
\* and a response was stored, and both are still there.
C30_Witness ==
  /\ ~connected
  /\ socket # "open"
  /\ lastOp.op = ""
  /\ DOMAIN responseCallbackMap # {}
  /\ DOMAIN responseMap # {}


\* The connected flag in every step but the end of close(): the client
\* starts disconnected; connected turns true only in the step in which the
\* pending TCP connect succeeds; a connect that fails or times out leaves it
\* false; and it is false after a socket close and after a socket error.
ConnectedFollowsSocket ==
  /\ (connected' /\ ~connected) => (socket = "connecting" /\ socket' = "open")
  /\ (socket = "connecting" /\ socket' # "open") => ~connected'
  /\ (socket = "open" /\ socket' = "closed") => ~connected'

\* C31: the client starts disconnected, becomes connected only when TCP
\* establishment succeeds, and is disconnected after a socket close, after a
\* socket error and after every close() call that has settled, whether it
\* returned or threw.
C31_DisconnectedAfterClose ==
  /\ connected = FALSE
  /\ [][ /\ ConnectedFollowsSocket
         /\ ("close" \in lastOp'.done \cup lastOp'.failed) => ~connected' ]_vars

\* The same lifecycle for the close() calls that returned.
C31_ConnectedFollowsSocket ==
  /\ connected = FALSE
  /\ [][ /\ ConnectedFollowsSocket
         /\ ("close" \in lastOp'.done) => ~connected' ]_vars

\* A client that was connected and authenticated, and whose socket closed.
C31_Witness ==
  /\ socket = "closed"
  /\ ~connected
  /\ sessions # <<>>

\* A close() call that was made on a connected client settles in this step.
CloseSettles ==
  \/ \E c \in CloseCalls :
        closeCalls[c].st = "waiting" /\ closeCalls'[c].st = "none"
  \/ connected /\ "close" \in lastOp'.done \cup lastOp'.failed

\* C34: when a close() call made on a connected client settles, the socket
\* is destroyed and connected is false, also when the logoff of one of the
\* sessions failed or timed out.
C34_CloseAlwaysDisconnects ==
  [][CloseSettles => (~connected' /\ socket' # "open")]_vars

C33_ConnectingOnlyWhileOutstanding ==
  \A t \in Trees :
     (tree[t].created /\ tree[t].connecting) =>
        \E r \in 1 .. Len(requests) :
           /\ requests[r].owner.k \in {"treeConnect", "treeConnectRetry"}
           /\ requests[r].owner.t = t
           /\ requests[r].st = "pending"

\* Occurrences of x in a list.
Count(list, x) == Cardinality({i \in 1 .. Len(list) : list[i] = x})

\* C35: client.sessions holds every authenticated session exactly once,
\* also one that was authenticated again after a logoff, and no session
\* whose logoff has completed.
C35_SessionsListsAuthenticated ==
  \A s \in Sessions :
     /\ sess[s].authenticated => Count(sessions, s) = 1
     /\ (sess[s].created /\ ~sess[s].authenticated /\ sess[s]._id = Undefined)
          => Count(sessions, s) = 0

\* C36: the list of a parent holds every child that is connected or open
\* exactly once: session.connectedTrees every connected tree of the
\* session, also one that was connected again after a disconnect, and
\* tree.openFiles and tree.openDirectories every open handle of the tree.
C36_ParentListsHoldChildren ==
  /\ \A t \in Trees :
        (tree[t].created /\ tree[t].connected)
          => Count(sess[tree[t].session].connectedTrees, t) = 1
  /\ \A h \in Handles :
        (handle[h].created /\ handle[h].isOpen)
          => IF handle[h].kind = "file"
             THEN Count(tree[handle[h].tree].openFiles, h) = 1
             ELSE Count(tree[handle[h].tree].openDirectories, h) = 1

\* C37: every request sent on a connected client is settled in the end, by
\* its response or by its request timeout, whatever else happens: other
\* requests, responses, a socket close, close().
C37_SendSettles ==
  \A r \in 1 .. MaxMsgs :
     (r <= Len(requests) /\ requests[r].st = "pending")
       ~> (r <= Len(requests) /\ requests[r].st \in {"resolved", "rejected"})

\* A request that was pending when the socket closed and was then settled
\* by its timeout.
C37_Witness ==
  \E r \in 1 .. Len(requests) :
     /\ requests[r].st = "rejected"
     /\ requests[r].err = "request_timeout"
     /\ socket = "closed"
     /\ Has(responseCallbackMap, requests[r].messageId)

RECURSIVE GoodFrames(_)
GoodFrames(k) ==
  IF k = 0 THEN <<>>
  ELSE IF framer.types[k] = 0 THEN Append(GoodFrames(k - 1), framer.frames[k])
  ELSE GoodFrames(k - 1)

\* C39: a frame that cannot be de-framed costs only itself: when the whole
\* stream has arrived, every frame with a valid type byte has been handed
\* on, in order and once each, whatever the segments were.
C39_BadFrameAffectsOnlyItself ==
  Received = Len(framer.stream)
    => framer.chunks = GoodFrames(Len(framer.frames))

\* The Socket objects that are connecting or established.
LiveSockets ==
  {i \in 1 .. Len(sockets.list) : sockets.list[i].st \in {"connecting", "open"}}

\* C40: the client has at most one live socket, and no socket other than
\* Client.socket still carries the client's listeners, however the
\* connect() calls overlap.
C40_OneLiveSocket ==
  /\ Cardinality(LiveSockets) <= 1
  /\ \A i \in LiveSockets : sockets.list[i].listeners => i = sockets.current

====
